---- MODULE Spec2Model ----
(***************************************************************************)
(* Model of the appointment-slot, booking, order-completion, prescription, *)
(* logout and checkout logic of the GNU Health REST middleware             *)
(* (app/api/endpoints).                                                    *)
(*                                                                         *)
(* Timestamps are minutes counted from 00:00 of day 0; a calendar date is  *)
(* its day number.  Formatted timestamps are tuples <<day, hh, mm, tail>>  *)
(* whose tail is "AM"/"PM" for "%Y-%m-%d %I:%M %p" and "00" (the seconds)  *)
(* for "%Y-%m-%d %H:%M:%S".                                                *)
(***************************************************************************)
EXTENDS Integers, Sequences, FiniteSets, TLC

VARIABLES
    slotReq,    \* the slot-generation request under consideration
    slotOut,    \* what the slot generators returned for slotReq
    slotPc,     \* "ready" before generation, "done" after
    gen,        \* the locals of a slot generator while its loops run
    now,        \* datetime.now(), in minutes
    appts,      \* committed rows of gnuhealth_appointment; the row id is the index
    bk,         \* the /book-slot requests in progress, one per worker
    booked,     \* history: ids of the appointments a booking request has claimed
    ordStatus,  \* committed ecom_orders.status, by order id
    ordItems,   \* ecom_order_items of each order: <<[product_id, quantity], ...>>
    stock,      \* committed stock_lot.number, by product; no entry: no row
    tx,         \* the update_order_status requests in progress, one per worker
    rxOrders,   \* gnuhealth_prescription_order: appointment_id, by order id
    rxLines,    \* gnuhealth_prescription_line rows: [order, medicament]
    rxTests,    \* gnuhealth_patient_lab_test rows: [order, test]
    rxEvals,    \* appointments that have a gnuhealth_patient_evaluation row
    medicaments, \* gnuhealth_medicament.active_component values
    rxResp,     \* the last prescription request and the HTTP status it got
    blacklist,  \* auth.TOKEN_BLACKLIST
    authResp,   \* the last request that presented a token, and its HTTP status
    cart,       \* cart_items rows, by id
    itemCart,   \* ecom_order_items.cart_id of each order, by order id
    co          \* the create_order requests in progress, one per worker

slotVars == <<slotReq, slotOut, slotPc, gen>>

apptVars == <<now, appts, bk, booked>>

orderVars == <<ordStatus, ordItems, stock, tx>>

rxTables == <<rxOrders, rxLines, rxTests, rxEvals, medicaments>>

rxVars == <<rxOrders, rxLines, rxTests, rxEvals, medicaments, rxResp>>

authVars == <<blacklist, authResp>>

cartVars == <<cart, itemCart, co>>

vars == <<slotReq, slotOut, slotPc, gen, now, appts, bk, booked, ordStatus, ordItems, stock, tx,
          rxOrders, rxLines, rxTests, rxEvals, medicaments, rxResp,
          blacklist, authResp, cart, itemCart, co>>

----------------------------------------------------------------------------
(* Slot generation                                                          *)

MinutesPerDay == 1440

\* Largest day number a request may name.
MaxDay == 2

\* Largest index into the list of durations offered to a request.
MaxDurIdx == 4

Durations == <<30, 45, 60, 20, 90, 50, 25>>

DurationSet == {Durations[i] : i \in 1..MaxDurIdx}

\* Minutes of the day offered as start_time / end_time.
TimeGrid == {0, 30, 540, 660, 1380, 1395}

\* strftime("%I:%M %p") of a time of day
FmtTime12(m) ==
    LET H == m \div 60
    IN  <<((H + 11) % 12) + 1, m % 60, IF H < 12 THEN "AM" ELSE "PM">>

\* strptime(s, "%I:%M %p").time() as minutes of the day
ParseTime12(s) ==
    LET H == (s[1] % 12) + (IF s[3] = "PM" THEN 12 ELSE 0)
    IN  H * 60 + s[2]

\* strftime("%Y-%m-%d %I:%M %p") of a timestamp
Fmt12(ts) ==
    LET t == FmtTime12(ts % MinutesPerDay)
    IN  <<ts \div MinutesPerDay, t[1], t[2], t[3]>>

\* strftime("%Y-%m-%d %H:%M:%S") of a timestamp whose seconds are zero
Fmt24(ts) ==
    <<ts \div MinutesPerDay, (ts % MinutesPerDay) \div 60, ts % 60, "00">>

\* datetime.combine(date, time)
Combine(day, minute) == day * MinutesPerDay + minute

EnumerateInclusive(cur, end, dur) ==
    [k \in 1..(IF cur <= end THEN ((end - cur) \div dur) + 1 ELSE 0)
        |-> cur + (k - 1) * dur]

\* while current_datetime < end_datetime: append; current_datetime += duration
RECURSIVE Enumerate(_, _, _)
Enumerate(cur, end, dur) ==
    IF cur < end THEN <<cur>> \o Enumerate(cur + dur, end, dur) ELSE <<>>

\* One iteration of the date loop of generate_doctor_appointment_slots
DaySlots(day, st, et, dur, end_date) ==
    IF st < et
    THEN Enumerate(Combine(day, st), Combine(day, et), dur)
    ELSE Enumerate(Combine(day, st), Combine(day + 1, 0), dur)
         \o (IF day < end_date
             THEN Enumerate(Combine(day + 1, 0), Combine(day + 1, et), dur)
             ELSE <<>>)

\* while current_date <= end_date: ...; current_date += 1 day
RECURSIVE DateLoop(_, _, _, _, _)
DateLoop(day, end_date, st, et, dur) ==
    IF day <= end_date
    THEN DaySlots(day, st, et, dur, end_date)
         \o DateLoop(day + 1, end_date, st, et, dur)
    ELSE <<>>

\* available_slots_telem_phy.generate_doctor_appointment_slots
generate_doctor_appointment_slots(request) ==
    LET raw == DateLoop(request.start_date, request.end_date,
                        ParseTime12(request.start_time),
                        ParseTime12(request.end_time), request.duration)
    IN  [i \in 1..Len(raw) |-> Fmt12(raw[i])]

\* One iteration of the date loop of generate_slot.generate_appointment_slots:
\* there is no branch for a window whose start is not before its end.
LegacyDaySlots(day, st, et, dur) ==
    IF st < et
    THEN Enumerate(Combine(day, st), Combine(day, et), dur)
    ELSE <<>>

RECURSIVE LegacyDateLoop(_, _, _, _, _)
LegacyDateLoop(day, end_date, st, et, dur) ==
    IF day <= end_date
    THEN LegacyDaySlots(day, st, et, dur)
         \o LegacyDateLoop(day + 1, end_date, st, et, dur)
    ELSE <<>>

\* generate_slot.generate_appointment_slots
generate_appointment_slots(request) ==
    LET raw == LegacyDateLoop(request.start_date, request.end_date,
                              ParseTime12(request.start_time),
                              ParseTime12(request.end_time), request.duration)
    IN  [i \in 1..Len(raw) |-> Fmt24(raw[i])]

SlotRequests ==
    [start_date : 0..MaxDay, end_date : 0..MaxDay,
     start_time : {FmtTime12(m) : m \in TimeGrid},
     end_time   : {FmtTime12(m) : m \in TimeGrid},
     duration   : DurationSet]

NoSlots == [telem |-> <<>>, legacy |-> <<>>]

\* No generator is running.
IdleGen == [pc |-> "idle", legacy |-> FALSE, current_date |-> 0,
            current_datetime |-> 0, end_datetime |-> 0, slots |-> <<>>]

SlotInit ==
    /\ slotReq \in SlotRequests
    /\ slotOut = NoSlots
    /\ slotPc = "ready"
    /\ gen = IdleGen

\* The slot-generation variables when no request is under consideration
SlotIdle ==
    /\ slotReq = [start_date |-> 0, end_date |-> 0,
                  start_time |-> FmtTime12(0), end_time |-> FmtTime12(0),
                  duration |-> 30]
    /\ slotOut = NoSlots
    /\ slotPc = "idle"
    /\ gen = IdleGen

\* The request body reaches generate_doctor_appointment_slots
GenerateDoctorSlots ==
    /\ slotPc = "ready"
    /\ slotOut' = [slotOut EXCEPT !.telem = generate_doctor_appointment_slots(slotReq)]
    /\ slotPc' = "telem"
    /\ UNCHANGED <<slotReq, gen, apptVars, orderVars, rxVars, authVars, cartVars>>

\* The same request body reaches generate_slot.generate_appointment_slots
GenerateLegacySlots ==
    /\ slotPc = "telem"
    /\ slotOut' = [slotOut EXCEPT !.legacy = generate_appointment_slots(slotReq)]
    /\ slotPc' = "done"
    /\ UNCHANGED <<slotReq, gen, apptVars, orderVars, rxVars, authVars, cartVars>>

(* ---- The loops of the two generators, iteration by iteration ---- *)

\* start_time / end_time of the request under consideration, parsed
ReqStartTime == ParseTime12(slotReq.start_time)
ReqEndTime   == ParseTime12(slotReq.end_time)

\* Entries of the result list the model keeps; later appends are not recorded.
MaxLoopSteps == 12

\* Days before day 0 that a datetime can still represent.
MaxPastDays == 1

\* datetime.min: current_datetime += timedelta(...) below it raises
\* OverflowError
datetime_min == Combine(0 - MaxPastDays, 0)

\* Durations a request body may carry: duration is an unvalidated int.
LoopDurations == {-30, 0, 30, 60}

\* Request bodies that parse; /date-slot-modification passes every one of
\* them to the generator, /generate-slots those whose start is not after
\* their end.
LoopRequests ==
    [start_date : 0..1, end_date : 0..1,
     start_time : {FmtTime12(m) : m \in {1320, 1380}},
     end_time   : {FmtTime12(m) : m \in {30, 1410}},
     duration   : LoopDurations]

\* A parsed request has reached a generator: slots = [], current_date =
\* start_date
LoopInit ==
    /\ slotReq \in LoopRequests
    /\ slotOut = NoSlots
    /\ slotPc = "idle"
    /\ gen \in {[IdleGen EXCEPT !.pc = "date", !.legacy = l,
                                !.current_date = slotReq.start_date] :
                    l \in BOOLEAN}

\* while current_date <= end_date: if start_time < end_time: ... else: ...
\* (generate_appointment_slots has no else branch)
LoopDate ==
    /\ gen.pc = "date"
    /\ gen' =
         IF gen.current_date > slotReq.end_date
         THEN [gen EXCEPT !.pc = "done"]
         ELSE IF ReqStartTime < ReqEndTime
         THEN [gen EXCEPT !.pc = "same",
                  !.current_datetime = Combine(gen.current_date, ReqStartTime),
                  !.end_datetime = Combine(gen.current_date, ReqEndTime)]
         ELSE IF gen.legacy
         THEN [gen EXCEPT !.current_date = @ + 1]
         ELSE [gen EXCEPT !.pc = "evening",
                  !.current_datetime = Combine(gen.current_date, ReqStartTime),
                  !.end_datetime = Combine(gen.current_date + 1, 0)]
    /\ UNCHANGED <<slotReq, slotOut, slotPc, apptVars, orderVars, rxVars, authVars, cartVars>>

\* The body of an inner loop: slots.append(current_datetime...);
\* current_datetime += timedelta(minutes=request.duration)
LoopAppend ==
    /\ gen.pc \in {"same", "evening", "morning"}
    /\ gen.current_datetime < gen.end_datetime
    /\ gen' =
         IF gen.current_datetime + slotReq.duration < datetime_min
         THEN [gen EXCEPT !.pc = "OverflowError"]
         ELSE [gen EXCEPT
                  !.slots = IF Len(@) < MaxLoopSteps
                            THEN Append(@, gen.current_datetime) ELSE @,
                  !.current_datetime = @ + slotReq.duration]
    /\ UNCHANGED <<slotReq, slotOut, slotPc, apptVars, orderVars, rxVars, authVars, cartVars>>

\* An inner loop's condition current_datetime < end_datetime is false
LoopExit ==
    /\ gen.pc \in {"same", "evening", "morning"}
    /\ gen.current_datetime >= gen.end_datetime
    /\ gen' =
         IF gen.pc = "evening" /\ gen.current_date < slotReq.end_date
         THEN [gen EXCEPT !.pc = "morning",
                  !.current_datetime = Combine(gen.current_date + 1, 0),
                  !.end_datetime = Combine(gen.current_date + 1, ReqEndTime)]
         ELSE [gen EXCEPT !.pc = "date", !.current_date = @ + 1]
    /\ UNCHANGED <<slotReq, slotOut, slotPc, apptVars, orderVars, rxVars, authVars, cartVars>>

----------------------------------------------------------------------------
(* Static tables: res_user, party_party, gnuhealth_patient,                 *)
(* gnuhealth_healthprofessional.  No modelled handler writes them.          *)

\* SQL NULL in an integer column
NULL == 0

\* data.get("state") / data.get("appointment_date") returned None
NullState == "<null>"

NoDate == -1

\* res_user.id of the callers that hold a valid token
Users == {1, 2, 3, 4}

\* SELECT id FROM party_party WHERE internal_user = :user_id
\* Users 1..3 and 5 are linked to a party; user 4 is not.
PartyOfUser(u) == IF u \in {1, 2, 3, 5} THEN 10 + u ELSE NULL

\* party_party.is_healthprof
IsHealthprofParty(party) == party \in {13, 15}

\* SELECT id FROM gnuhealth_patient WHERE name = :party_id
\* Parties 11 and 12 are patients 1 and 2.
PatientOfParty(party) == IF party \in {11, 12} THEN party - 10 ELSE NULL

\* SELECT id FROM gnuhealth_healthprofessional WHERE name = :party_id
\* Party 13 is health professional 1, party 15 is health professional 2.
HealthprofOfParty(party) == IF party = 13 THEN 1 ELSE IF party = 15 THEN 2 ELSE NULL

Patients == {1, 2}

\* The professional the booking and management requests name
Healthprofs == {1}

\* gnuhealth_healthprofessional.id of every professional
AllHealthprofs == {1, 2}

\* The two lookups every patient endpoint starts with
PatientOfUser(u) ==
    IF PartyOfUser(u) = NULL THEN NULL ELSE PatientOfParty(PartyOfUser(u))

\* available_slots_telem_phy.get_healthprof: res_user -> party -> healthprof
get_healthprof(u) ==
    IF PartyOfUser(u) = NULL THEN NULL ELSE HealthprofOfParty(PartyOfUser(u))

----------------------------------------------------------------------------
(* gnuhealth_appointment and the requests that write it                     *)

\* Most rows gnuhealth_appointment may hold.
MaxAppts == 2

\* Concurrent request workers.
Workers == {1, 2}

\* Largest index into the list of instants the clock may show.
MaxInstantIdx == 3

ClockGrid == <<0, 540, 570, 600, 630, 660>>

Instants == {ClockGrid[i] : i \in 1..MaxInstantIdx}

\* Timestamps a client may name in a request
ClientTimes == {540, 570}

ApptIds == 1..MaxAppts

\* strptime("%Y-%m-%d %I:%M %p") / the database's reading of such a literal
ParseStamp12(s) == Combine(s[1], ParseTime12(<<s[2], s[3], s[4]>>))

Row(date, hp, patient, state) ==
    [appointment_date |-> date, healthprof |-> hp, patient |-> patient, state |-> state]

IdleWorker ==
    [pc |-> "idle", user |-> 0, id |-> 0, patient |-> NULL, slot_date |-> 0,
     checked_at |-> 0, status |-> 0, rebook |-> FALSE]

AllIdle == \A w \in Workers : bk[w].pc = "idle"

ApptInit ==
    /\ now = 0
    /\ appts = <<>>
    /\ bk = [w \in Workers |-> IdleWorker]
    /\ booked = {}

\* Time passes.
Tick ==
    /\ \E t \in Instants : t > now /\ now' = t
    /\ UNCHANGED <<appts, bk, booked, slotVars, orderVars, rxVars, authVars, cartVars>>

(* ---- POST /book-slot (book_appointment_slot), statement by statement ---- *)

SlotFound_AnyState(id) == id \in DOMAIN appts

SlotFound_NotBooked(id) == id \in DOMAIN appts /\ appts[id].state # "booked"

\* SELECT ... WHERE id = :appointment_id AND state = 'free' returned a row
SlotFound(id) == id \in DOMAIN appts /\ appts[id].state = "free"

\* Lines 21-55: resolve the caller's patient, then look the slot up
BookSelect(w, u, id) ==
    /\ bk[w].pc = "idle"
    /\ LET party   == PartyOfUser(u)
           patient == IF party = NULL THEN NULL ELSE PatientOfParty(party)
           found   == SlotFound(id)
           req     == [IdleWorker EXCEPT !.user = u, !.id = id,
                                         !.rebook = (id \in booked)]
       IN  bk' = [bk EXCEPT ![w] =
              IF party = NULL \/ patient = NULL
              THEN [req EXCEPT !.pc = "done", !.status = 400]
              ELSE IF ~found
              THEN [req EXCEPT !.pc = "done", !.status = 404, !.patient = patient]
              ELSE [req EXCEPT !.pc = "checkdate", !.patient = patient,
                               !.slot_date = appts[id].appointment_date]]
    /\ UNCHANGED <<now, appts, booked, slotVars, orderVars, rxVars, authVars, cartVars>>

\* Lines 57-66: if appointment_date < datetime.now(): 400
BookCheckDate(w) ==
    /\ bk[w].pc = "checkdate"
    /\ bk' = [bk EXCEPT ![w] =
          IF bk[w].slot_date < now
          THEN [@ EXCEPT !.pc = "done", !.status = 400, !.checked_at = now]
          ELSE [@ EXCEPT !.pc = "update", !.checked_at = now]]
    /\ UNCHANGED <<now, appts, booked, slotVars, orderVars, rxVars, authVars, cartVars>>

\* Lines 70-84: UPDATE ... WHERE id = :appointment_id.  The statement waits
\* while another transaction holds the row's lock (an uncommitted UPDATE).
BookUpdate(w) ==
    /\ bk[w].pc = "update"
    /\ \A v \in Workers \ {w} : ~(bk[v].pc = "commit" /\ bk[v].id = bk[w].id)
    /\ bk' = [bk EXCEPT ![w].pc = "commit"]
    /\ UNCHANGED <<now, appts, booked, slotVars, orderVars, rxVars, authVars, cartVars>>

BookedRow_KeepFirst(row, patient) ==
    [row EXCEPT !.patient = IF @ = NULL THEN patient ELSE @, !.state = "confirmed"]

\* SET patient = :patient_id, state = 'confirmed'
BookedRow(row, patient) == [row EXCEPT !.patient = patient, !.state = "confirmed"]

\* Line 98: db.commit(), then the success response
BookCommit(w) ==
    /\ bk[w].pc = "commit"
    /\ appts' = [appts EXCEPT ![bk[w].id] = BookedRow(@, bk[w].patient)]
    /\ bk' = [bk EXCEPT ![w].pc = "done", ![w].status = 200]
    /\ booked' = booked \cup {bk[w].id}
    /\ UNCHANGED <<now, slotVars, orderVars, rxVars, authVars, cartVars>>

\* Lines 113-115: a database error in the try block: rollback, 500
BookFail(w) ==
    /\ bk[w].pc \in {"update", "commit"}
    /\ bk' = [bk EXCEPT ![w].pc = "done", ![w].status = 500]
    /\ UNCHANGED <<now, appts, booked, slotVars, orderVars, rxVars, authVars, cartVars>>

\* The response has been delivered; the worker is free again.
BookReturn(w) ==
    /\ bk[w].pc = "done"
    /\ bk' = [bk EXCEPT ![w] = IdleWorker]
    /\ UNCHANGED <<now, appts, booked, slotVars, orderVars, rxVars, authVars, cartVars>>

(* ---- POST /appointments_new (appointments.create_appointment, first) ---- *)

\* The ids the SELECT of lines 73-83 may return first
FreeAt(hp, ts) ==
    {i \in DOMAIN appts : /\ appts[i].healthprof = hp
                          /\ appts[i].appointment_date = ts
                          /\ appts[i].state = "free"}

\* SET patient = :patient, state = 'booked'
NewBookedRow(row, patient) == [row EXCEPT !.patient = patient, !.state = "booked"]

\* Lines 51-68: the request is answered 400
AppointmentsNewRejects(u, ts) == ts < now \/ PatientOfUser(u) = NULL

\* The response carries "success": True
AppointmentsNewSucceeds(u, hp, ts) ==
    ~AppointmentsNewRejects(u, ts) /\ FreeAt(hp, ts) # {}

AppointmentsNew(u, hp, ts) ==
    /\ IF AppointmentsNewSucceeds(u, hp, ts)
       THEN \E pick \in FreeAt(hp, ts) :
               /\ appts' = [appts EXCEPT ![pick] = NewBookedRow(@, PatientOfUser(u))]
               /\ booked' = booked \cup {pick}
       ELSE UNCHANGED <<appts, booked>>
    /\ UNCHANGED <<now, bk, slotVars, orderVars, rxVars, authVars, cartVars>>

(* ---- POST /generate-slots (available_slots_telem_phy.get_slots) ---- *)

\* Requests offered to /generate-slots and /date-slot-modification
GenRequests ==
    {[start_date |-> 0, end_date |-> 0, start_time |-> FmtTime12(540),
      end_time |-> FmtTime12(600), duration |-> 30],
     [start_date |-> 0, end_date |-> 0, start_time |-> FmtTime12(570),
      end_time |-> FmtTime12(600), duration |-> 30]}

get_doctor_slots_Fmt24(hp) ==
    {Fmt24(appts[i].appointment_date) : i \in {j \in DOMAIN appts : appts[j].healthprof = hp}}

\* get_doctor_slots: the professional's appointment_date values, formatted
get_doctor_slots(hp) ==
    {Fmt12(appts[i].appointment_date) : i \in {j \in DOMAIN appts : appts[j].healthprof = hp}}

\* insert_appointments: one row per slot, state 'free', no patient
insert_appointments(rows, hp, slots) ==
    rows \o [i \in 1..Len(slots) |-> Row(ParseStamp12(slots[i]), hp, NULL, "free")]

\* The slots get_slots hands to insert_appointments
UniqueNewSlots(u, request) ==
    LET new_slots == generate_doctor_appointment_slots(request)
        existing  == get_doctor_slots(get_healthprof(u))
    IN  SelectSeq(new_slots, LAMBDA s : s \notin existing)

\* get_slots answers 400 before generating anything
GetSlotsRejects(u, request) ==
    LET start_datetime == Combine(request.start_date, ParseTime12(request.start_time))
        end_datetime   == Combine(request.end_date, ParseTime12(request.end_time))
        party          == PartyOfUser(u)
    IN  \/ start_datetime > end_datetime
        \/ start_datetime < now \/ end_datetime < now
        \/ party = NULL
        \/ ~IsHealthprofParty(party)
        \/ HealthprofOfParty(party) = NULL

GetSlotsResult(u, request) ==
    IF GetSlotsRejects(u, request)
    THEN [rows |-> appts, status |-> 400]
    ELSE [rows |-> insert_appointments(appts, HealthprofOfParty(PartyOfUser(u)),
                                       UniqueNewSlots(u, request)),
          status |-> 200]

\* get_slots, while the table holds no more than cap rows afterwards
GetSlotsCapped(u, request, cap) ==
    /\ Len(GetSlotsResult(u, request).rows) <= cap
    /\ appts' = GetSlotsResult(u, request).rows
    /\ UNCHANGED <<now, bk, booked, slotVars, orderVars, rxVars, authVars, cartVars>>

GetSlots(u, request) == GetSlotsCapped(u, request, MaxAppts)

\* Most rows the table may hold when only /generate-slots is served.
MaxGenRows == 4

\* Callers of /generate-slots: a patient and the two professionals
GenCallers == {1, 3, 5}

\* Windows offered when only /generate-slots is served: overlapping
\* same-day windows and one that spans midnight
WideGenRequests ==
    {[start_date |-> 0, end_date |-> e, start_time |-> FmtTime12(st),
      end_time |-> FmtTime12(et), duration |-> dur] :
        e \in {0, 1}, st \in {540, 570, 1410}, et \in {30, 570, 600},
        dur \in {30, 60}}

(* ---- POST /appointments (appointments.create_appointment, second) ---- *)

\* Values a client may send as "state"
ClientStates == {"free", "confirmed"}

\* Lines 116-180: INSERT with patient = the caller's patient and
\* state = data.get("state", "free")
AppointmentsCreateResult(u, hp, ts, state) ==
    IF PatientOfUser(u) = NULL
    THEN [rows |-> appts, status |-> 400]
    ELSE [rows |-> Append(appts, Row(ts, hp, PatientOfUser(u), state)), status |-> 200]

AppointmentsCreate(u, hp, ts, state) ==
    /\ Len(AppointmentsCreateResult(u, hp, ts, state).rows) <= MaxAppts
    /\ appts' = AppointmentsCreateResult(u, hp, ts, state).rows
    /\ UNCHANGED <<now, bk, booked, slotVars, orderVars, rxVars, authVars, cartVars>>

(* ---- PUT /appointments/{appointment_id} (update_appointment) ---- *)

\* COALESCE(:new_date, appointment_date), COALESCE(:new_state, state)
Coalesced(row, new_date, new_state) ==
    [row EXCEPT !.appointment_date = IF new_date = NoDate THEN @ ELSE new_date,
                !.state            = IF new_state = NullState THEN @ ELSE new_state]

UpdateAppointmentResult(u, id, new_date, new_state) ==
    IF PartyOfUser(u) = NULL
    THEN [rows |-> appts, status |-> 400]
    ELSE IF PatientOfUser(u) = NULL
    THEN [rows |-> appts, status |-> 403]
    ELSE IF ~(id \in DOMAIN appts /\ appts[id].patient = PatientOfUser(u))
    THEN [rows |-> appts, status |-> 404]
    ELSE [rows |-> [appts EXCEPT ![id] = Coalesced(@, new_date, new_state)],
          status |-> 200]

UpdateAppointment(u, id, new_date, new_state) ==
    /\ appts' = UpdateAppointmentResult(u, id, new_date, new_state).rows
    /\ UNCHANGED <<now, bk, booked, slotVars, orderVars, rxVars, authVars, cartVars>>

(* ---- POST /request-appointment-cancellation ---- *)

RequestCancellationResult_AnyState(u, id) ==
    IF PartyOfUser(u) = NULL
    THEN [rows |-> appts, status |-> 400]
    ELSE IF PatientOfUser(u) = NULL
    THEN [rows |-> appts, status |-> 403]
    ELSE IF ~(id \in DOMAIN appts /\ appts[id].patient = PatientOfUser(u))
    THEN [rows |-> appts, status |-> 404]
    ELSE [rows |-> [appts EXCEPT ![id].state = "cancel request"], status |-> 200]

RequestCancellationResult(u, id) ==
    IF PartyOfUser(u) = NULL
    THEN [rows |-> appts, status |-> 400]
    ELSE IF PatientOfUser(u) = NULL
    THEN [rows |-> appts, status |-> 403]
    ELSE IF ~(id \in DOMAIN appts /\ appts[id].patient = PatientOfUser(u))
    THEN [rows |-> appts, status |-> 404]
    ELSE IF appts[id].state # "confirmed"
    THEN [rows |-> appts, status |-> 400]
    ELSE [rows |-> [appts EXCEPT ![id].state = "cancel request"], status |-> 200]

RequestCancellation(u, id) ==
    /\ appts' = RequestCancellationResult(u, id).rows
    /\ UNCHANGED <<now, bk, booked, slotVars, orderVars, rxVars, authVars, cartVars>>

(* ---- POST /specific-slot-cancel (cancel_slot, slot_cancel, update_state) ---- *)

\* The email joins of slot_cancel find a row for every known professional
\* and patient.
HasDoctorEmail(hp) == hp \in AllHealthprofs

HasPatientEmail(patient) == patient \in Patients

\* update_state: UPDATE ... SET state = :state WHERE id = :id; commit
update_state(rows, id, state) == [rows EXCEPT ![id].state = state]

\* slot_cancel raises 404 for this id
SlotCancelFails(rows, id) ==
    \/ id \notin DOMAIN rows
    \/ ~HasDoctorEmail(rows[id].healthprof)
    \/ rows[id].state = "booked" /\ ~HasPatientEmail(rows[id].patient)

\* A /specific-slot-cancel that cancels every id or none
CancelEach_AllOrNothing(rows, ids) ==
    IF \E k \in 1..Len(ids) : SlotCancelFails(rows, ids[k])
    THEN [rows |-> rows, status |-> 404]
    ELSE [rows |-> [i \in DOMAIN rows |->
                       IF \E k \in 1..Len(ids) : ids[k] = i
                       THEN [rows[i] EXCEPT !.state = "Cancel"] ELSE rows[i]],
          status |-> 200]

\* for id in request.ids: slot_cancel(id, "Cancel", db); each id commits on
\* its own, the first failing id ends the request.
RECURSIVE CancelEach(_, _)
CancelEach(rows, ids) ==
    IF ids = <<>> THEN [rows |-> rows, status |-> 200]
    ELSE IF SlotCancelFails(rows, Head(ids)) THEN [rows |-> rows, status |-> 404]
    ELSE CancelEach(update_state(rows, Head(ids), "Cancel"), Tail(ids))

CancelSlot(ids) ==
    /\ appts' = CancelEach(appts, ids).rows
    /\ UNCHANGED <<now, bk, booked, slotVars, orderVars, rxVars, authVars, cartVars>>

(* ---- POST /date-slot-cancel (date_slot_cancel, date_slots_cancel) ---- *)

\* strftime("%Y-%m-%d") of a timestamp
DateOf(ts) == ts \div MinutesPerDay

DateSlotCancelResult(u, date) ==
    IF get_healthprof(u) = NULL
    THEN \* healthprof[0] on None: unhandled TypeError
         [rows |-> appts, status |-> 500]
    ELSE [rows |-> [i \in DOMAIN appts |->
                       IF /\ appts[i].healthprof = get_healthprof(u)
                          /\ DateOf(appts[i].appointment_date) = date
                       THEN [appts[i] EXCEPT !.state = "Cancel"]
                       ELSE appts[i]],
          status |-> 200]

DateSlotCancel(u, date) ==
    /\ appts' = DateSlotCancelResult(u, date).rows
    /\ UNCHANGED <<now, bk, booked, slotVars, orderVars, rxVars, authVars, cartVars>>

(* ---- POST /specific-slot-modification (slot_modify, slots_modify) ---- *)

\* The professional's rows whose formatted date and time equal the request's
MatchingDate(hp, date, time) ==
    {i \in DOMAIN appts : /\ appts[i].healthprof = hp
                          /\ DateOf(appts[i].appointment_date) = date
                          /\ FmtTime12(appts[i].appointment_date % MinutesPerDay) = time}

\* slots_modify when matching_date[0] is row `first` (0: no row matches).
\* moved is FALSE where slots_modify returns False.
SlotsModifyResult(id, date, time, first) ==
    LET target == Combine(date, ParseTime12(time))
    IN  IF first # 0 /\ appts[first].state \in {"booked", "free"}
        THEN [rows |-> appts, moved |-> FALSE]
        ELSE IF target <= now
        THEN [rows |-> appts, moved |-> FALSE]
        ELSE [rows |-> [appts EXCEPT ![id] =
                          [@ EXCEPT !.appointment_date = target, !.state = "free"]],
              moved |-> TRUE]

SlotModify(id, date, time) ==
    /\ IF id \notin DOMAIN appts
       THEN \* user[0] on None: unhandled TypeError, 500
            UNCHANGED appts
       ELSE LET matching == MatchingDate(appts[id].healthprof, date, time)
            IN  \* the SELECT has no ORDER BY: any matching row may come first
                \E first \in (IF matching = {} THEN {0} ELSE matching) :
                    appts' = SlotsModifyResult(id, date, time, first).rows
    /\ UNCHANGED <<now, bk, booked, slotVars, orderVars, rxVars, authVars, cartVars>>

(* ---- POST /date-slot-modification (date_slot_modify, date_slots_modify) ---- *)

\* The sequences that list every element of S exactly once
Orderings(S) ==
    {f \in [1..Cardinality(S) -> S] : \A i, j \in 1..Cardinality(S) : f[i] = f[j] => i = j}

Min(a, b) == IF a < b THEN a ELSE b

\* for slot, id, ... in zip(new_slots, id_list, ...): UPDATE; commit
RECURSIVE Reassign(_, _, _, _)
Reassign(rows, new_slots, id_list, k) ==
    IF k > Min(Len(new_slots), Len(id_list)) THEN rows
    ELSE Reassign([rows EXCEPT ![id_list[k]] =
                      [@ EXCEPT !.appointment_date = ParseStamp12(new_slots[k]),
                                !.state = "free"]],
                  new_slots, id_list, k + 1)

\* new_slots = [slot for slot in slots if slot not in existing_slots_set]:
\* the slots are "%I:%M %p" texts, the set holds "%H:%M:%S" texts
ModificationSlots(healthprof, request) ==
    LET slots    == generate_doctor_appointment_slots(request)
        existing == {Fmt24(appts[i].appointment_date) :
                        i \in {j \in DOMAIN appts : appts[j].healthprof = healthprof}}
    IN  SelectSeq(slots, LAMBDA s : s \notin existing)

\* date_slots_modify when the SELECT of the cancel_date rows returned them
\* in the order id_list
DateSlotsModifyResult(healthprof, request, id_list) ==
    IF ModificationSlots(healthprof, request) = <<>>
    THEN [rows |-> appts, moved |-> FALSE]
    ELSE [rows |-> Reassign(appts, ModificationSlots(healthprof, request), id_list, 1),
          moved |-> TRUE]

DateSlotModify(u, request, cancel_date) ==
    /\ IF get_healthprof(u) = NULL
       THEN \* healthprof[0] on None: unhandled TypeError, 500
            UNCHANGED appts
       ELSE LET on_date == {i \in DOMAIN appts :
                              /\ appts[i].healthprof = get_healthprof(u)
                              /\ DateOf(appts[i].appointment_date) = cancel_date}
            IN  \E id_list \in Orderings(on_date) :
                    appts' = DateSlotsModifyResult(get_healthprof(u), request, id_list).rows
    /\ UNCHANGED <<now, bk, booked, slotVars, orderVars, rxVars, authVars, cartVars>>

----------------------------------------------------------------------------
(* ecom_orders, ecom_order_items, stock_lot and PUT /orders/{id}/status     *)

Orders == {1, 2}

Products == {1, 2}

\* Largest quantity on an order line.
MaxQty == 2

\* Largest stock_lot.number before any order is completed.
MaxStock == 2

VALID_STATUSES == {"pending", "processing", "ready_for_delivery", "completed", "cancelled"}

\* Values a client sends as new_status
ClientStatuses == {"completed", "cancelled", "shipped"}

Lines == [product_id : Products, quantity : 1..MaxQty]

\* Orders of one line
OneLine == {<<a>> : a \in Lines}

\* Orders of one or two lines
ItemLists == OneLine \cup {<<a, b>> : a, b \in Lines}

IdleTx ==
    [pc |-> "idle", order |-> 0, new_status |-> "", items |-> <<>>, i |-> 0,
     read |-> 0, wrote_status |-> FALSE, w_stock |-> <<>>, status |-> 0,
     rolled_back |-> 0, pre_status |-> <<>>, pre_stock |-> <<>>]

\* The request of record t ends with the given HTTP status: its session is
\* closed, its locals are gone and whatever it had not committed is discarded.
Respond(t, status) ==
    [t EXCEPT !.pc = "done", !.status = status, !.items = <<>>, !.i = 0,
              !.read = 0, !.wrote_status = FALSE, !.w_stock = <<>>]

\* History: the number of UPDATE statements record t has not committed
Written(t) == (IF t.wrote_status THEN 1 ELSE 0) + Cardinality(DOMAIN t.w_stock)

TxIdle == \A w \in Workers : tx[w].pc = "idle"

\* Orders are created 'pending' (orders.py line 166).  Product 1 has a
\* stock_lot row, product 2 may have none.
OrderInit ==
    /\ ordStatus = [o \in Orders |-> "pending"]
    /\ ordItems \in {<<a, b>> : a \in ItemLists, b \in OneLine}
    /\ stock \in [{1} -> 0..MaxStock] \cup [{1, 2} -> 0..MaxStock]
    /\ tx = [w \in Workers |-> IdleTx]

\* The order tables when no order exists
OrderIdle ==
    /\ ordStatus = <<>>
    /\ ordItems = <<>>
    /\ stock = <<>>
    /\ tx = [w \in Workers |-> IdleTx]

\* SELECT id, number FROM stock_lot WHERE product = :product_id, as the
\* transaction of worker w sees it: its own uncommitted UPDATE, else the
\* committed row.
HasLot(p) == p \in DOMAIN stock

ReadNumber_Snapshot(w, p) == tx[w].pre_stock[p]

ReadNumber_Committed(w, p) == stock[p]

ReadNumber(w, p) ==
    IF p \in DOMAIN tx[w].w_stock THEN tx[w].w_stock[p] ELSE stock[p]

OrderBegin_NoTerminal(w, o, new_status) ==
    /\ tx[w].pc = "idle"
    /\ LET req == [IdleTx EXCEPT !.order = o, !.new_status = new_status,
                                 !.pre_status = ordStatus, !.pre_stock = stock]
       IN  tx' = [tx EXCEPT ![w] =
              IF new_status \notin VALID_STATUSES
              THEN Respond(req, 400)
              ELSE IF o \notin DOMAIN ordStatus
              THEN Respond(req, 404)
              ELSE [req EXCEPT !.items = ordItems[o], !.i = 1,
                               !.pc = IF new_status = "completed"
                                      THEN "check" ELSE "set_status"]]
    /\ UNCHANGED <<ordStatus, ordItems, stock, slotVars, apptVars, rxVars, authVars, cartVars>>

\* Lines 179-208: validate new_status, load the order and its items
OrderBegin(w, o, new_status) ==
    /\ tx[w].pc = "idle"
    /\ LET req == [IdleTx EXCEPT !.order = o, !.new_status = new_status,
                                 !.pre_status = ordStatus, !.pre_stock = stock]
       IN  tx' = [tx EXCEPT ![w] =
              IF new_status \notin VALID_STATUSES
              THEN Respond(req, 400)
              ELSE IF o \notin DOMAIN ordStatus
              THEN Respond(req, 404)
              ELSE IF ordStatus[o] = "completed"
              THEN Respond(req, 400)
              ELSE [req EXCEPT !.items = ordItems[o], !.i = 1,
                               !.pc = IF new_status = "completed"
                                      THEN "check" ELSE "set_status"]]
    /\ UNCHANGED <<ordStatus, ordItems, stock, slotVars, apptVars, rxVars, authVars, cartVars>>

Insufficient_Empty(w, item) ==
    \/ ~HasLot(item.product_id)
    \/ ReadNumber(w, item.product_id) <= 0

\* Lines 223-226: not stock_lot_row or float(number or 0) < quantity_needed
Insufficient(w, item) ==
    \/ ~HasLot(item.product_id)
    \/ ReadNumber(w, item.product_id) < item.quantity

\* Lines 211-230: one turn of the stock check loop
OrderCheck(w) ==
    /\ tx[w].pc = "check"
    /\ tx' = [tx EXCEPT ![w] =
          IF tx[w].i > Len(tx[w].items)
          THEN [@ EXCEPT !.pc = "set_status"]
          ELSE IF Insufficient(w, tx[w].items[tx[w].i])
          THEN Respond(@, 400)
          ELSE [@ EXCEPT !.i = @ + 1]]
    /\ UNCHANGED <<ordStatus, ordItems, stock, slotVars, apptVars, rxVars, authVars, cartVars>>

OrderSetStatus_Autocommit(w) ==
    /\ tx[w].pc = "set_status"
    /\ ordStatus' = [ordStatus EXCEPT ![tx[w].order] = tx[w].new_status]
    /\ tx' = [tx EXCEPT ![w] =
          [@ EXCEPT !.i = 1,
                    !.pc = IF tx[w].new_status = "completed"
                           THEN "deduct_read" ELSE "commit"]]
    /\ UNCHANGED <<ordItems, stock, slotVars, apptVars, rxVars, authVars, cartVars>>

\* Lines 233-236: UPDATE ecom_orders SET status; the statement waits while
\* another transaction holds an uncommitted UPDATE of the same row.
OrderSetStatus(w) ==
    /\ tx[w].pc = "set_status"
    /\ \A v \in Workers \ {w} : ~(tx[v].wrote_status /\ tx[v].order = tx[w].order)
    /\ tx' = [tx EXCEPT ![w] =
          [@ EXCEPT !.wrote_status = TRUE, !.i = 1,
                    !.pc = IF tx[w].new_status = "completed"
                           THEN "deduct_read" ELSE "commit"]]
    /\ UNCHANGED <<ordStatus, ordItems, stock, slotVars, apptVars, rxVars, authVars, cartVars>>

\* Lines 240-251: the SELECT of one turn of the deduction loop
OrderDeductRead(w) ==
    /\ tx[w].pc = "deduct_read"
    /\ tx' = [tx EXCEPT ![w] =
          IF tx[w].i > Len(tx[w].items)
          THEN [@ EXCEPT !.pc = "commit"]
          ELSE [@ EXCEPT !.pc = "deduct_write",
                         !.read = ReadNumber(w, tx[w].items[tx[w].i].product_id)]]
    /\ UNCHANGED <<ordStatus, ordItems, stock, slotVars, apptVars, rxVars, authVars, cartVars>>

NewNumber_Relative(w) ==
    ReadNumber(w, tx[w].items[tx[w].i].product_id) - tx[w].items[tx[w].i].quantity

\* Lines 251-252: new_number = current_number - quantity
NewNumber(w) == tx[w].read - tx[w].items[tx[w].i].quantity

\* The function f with f[p] set to n, p added to its domain if need be
Put(f, p, n) == [q \in DOMAIN f \cup {p} |-> IF q = p THEN n ELSE f[q]]

\* Lines 254-263: UPDATE stock_lot SET number = :number WHERE id = :id; the
\* statement waits while another transaction holds an uncommitted UPDATE of
\* the same row.
OrderDeductWrite(w) ==
    /\ tx[w].pc = "deduct_write"
    /\ LET p == tx[w].items[tx[w].i].product_id
       IN  /\ \A v \in Workers \ {w} : p \notin DOMAIN tx[v].w_stock
           /\ tx' = [tx EXCEPT ![w] =
                 [@ EXCEPT !.w_stock = Put(@, p, NewNumber(w)),
                           !.i = @ + 1, !.read = 0, !.pc = "deduct_read"]]
    /\ UNCHANGED <<ordStatus, ordItems, stock, slotVars, apptVars, rxVars, authVars, cartVars>>

OrderCommit_AllOrders(w) ==
    /\ tx[w].pc = "commit"
    /\ ordStatus' = [o \in DOMAIN ordStatus |-> tx[w].new_status]
    /\ stock' = [p \in DOMAIN stock |->
                    IF p \in DOMAIN tx[w].w_stock THEN tx[w].w_stock[p] ELSE stock[p]]
    /\ tx' = [tx EXCEPT ![w] = Respond(@, 200)]
    /\ UNCHANGED <<ordItems, slotVars, apptVars, rxVars, authVars, cartVars>>

\* Line 265: db.commit() makes the status and every deduction visible
OrderCommit(w) ==
    /\ tx[w].pc = "commit"
    /\ ordStatus' = [ordStatus EXCEPT ![tx[w].order] = tx[w].new_status]
    /\ stock' = [p \in DOMAIN stock |->
                    IF p \in DOMAIN tx[w].w_stock THEN tx[w].w_stock[p] ELSE stock[p]]
    /\ tx' = [tx EXCEPT ![w] = Respond(@, 200)]
    /\ UNCHANGED <<ordItems, slotVars, apptVars, rxVars, authVars, cartVars>>

\* Lines 275-279: a database error after the checks: rollback, 500
OrderFail(w) ==
    /\ tx[w].pc \in {"set_status", "deduct_read", "deduct_write", "commit"}
    /\ tx' = [tx EXCEPT ![w] =
          [Respond(@, 500) EXCEPT !.rolled_back = Written(tx[w])]]
    /\ UNCHANGED <<ordStatus, ordItems, stock, slotVars, apptVars, rxVars, authVars, cartVars>>

\* The response has been delivered; the worker is free again.
OrderReturn(w) ==
    /\ tx[w].pc = "done"
    /\ tx' = [tx EXCEPT ![w] = IdleTx]
    /\ UNCHANGED <<ordStatus, ordItems, stock, slotVars, apptVars, rxVars, authVars, cartVars>>

----------------------------------------------------------------------------
(* Prescriptions: /prescription-save/{appointment_id}, /prescription-header *)

DefaultMedicine == "Default Medicine"

\* Medicine names a prescription may carry
MedNames == {"paracetamol", DefaultMedicine}

\* Lab test names a prescription may carry
TestNames == {"cbc"}

\* Most rows of gnuhealth_prescription_order.
MaxRxOrders == 2

\* Most rows of gnuhealth_prescription_line, and of gnuhealth_patient_lab_test.
MaxRxLines == 3

\* A med_tests or medicine field of the request body: absent (None), or a
\* mapping of which only the set of names matters
Payloads(names) ==
    {[given |-> FALSE, names |-> {}]} \cup [given : {TRUE}, names : SUBSET names]

\* The appointments the prescription requests are made against
RxAppts ==
    <<Row(540, 1, 1, "confirmed"), Row(570, 1, NULL, "free"), Row(600, 2, 2, "confirmed")>>

\* appointment_id values of the requests; the last one names no row
RxApptIds == 1..(Len(RxAppts) + 1)

\* Callers: a patient and the professional of appointments 1 and 2
RxCallers == {1, 3}

\* The role claim of the caller's token
RoleOfUser(u) == IF u \in {3, 5} THEN "doctor" ELSE IF u \in {1, 2} THEN "patient" ELSE "unknown"

\* SELECT pp.internal_user FROM gnuhealth_healthprofessional ghp JOIN party_party pp
InternalUserOfHealthprof(hp) == IF hp = 1 THEN 3 ELSE IF hp = 2 THEN 5 ELSE NULL

\* No prescription request has been answered yet
NoRxResp == [endpoint |-> "", user |-> 0, appointment_id |-> 0, status |-> 0]

RxInit ==
    /\ rxResp = NoRxResp
    /\ rxOrders = <<>>
    /\ rxLines = <<>>
    /\ rxTests = <<>>
    /\ rxEvals = {}
    /\ medicaments \in {{}, {DefaultMedicine}}

\* The prescription tables when no prescription request is served
RxIdle ==
    /\ rxResp = NoRxResp
    /\ rxOrders = <<>>
    /\ rxLines = <<>>
    /\ rxTests = <<>>
    /\ rxEvals = {}
    /\ medicaments = {}

\* The prescription tables as one value
Rx ==
    [orders |-> rxOrders, lines |-> rxLines, tests |-> rxTests,
     evals |-> rxEvals, meds |-> medicaments]

\* The elements of a set, one after the other
RECURSIVE SeqOf(_)
SeqOf(S) ==
    IF S = {} THEN <<>>
    ELSE LET x == CHOOSE y \in S : TRUE IN <<x>> \o SeqOf(S \ {x})

\* Ids of the prescription orders of appointment a
OrdersOf(orders, a) == {i \in DOMAIN orders : orders[i] = a}

\* The caller is the internal user of the appointment's professional
IsAssignedDoctor(u, a) == InternalUserOfHealthprof(appts[a].healthprof) = u

\* DELETE FROM gnuhealth_prescription_line WHERE name = :id AND medicament !=
\* (SELECT id FROM gnuhealth_medicament WHERE active_component = 'Default
\* Medicine'): with no such medicament the comparison is NULL for every row.
KeptLines(lines, id, meds) ==
    SelectSeq(lines, LAMBDA l :
        ~(l.order = id /\ DefaultMedicine \in meds /\ l.medicament # DefaultMedicine))

\* DELETE FROM gnuhealth_patient_lab_test WHERE prescription = :id
KeptTests(tests, id) == SelectSeq(tests, LAMBDA t : t.order # id)

\* Lines 107-175 and 258-452 of save_prescription once the checks passed;
\* pick is the order the SELECT returned (0: none, a new order is inserted).
SaveApplied(rx, a, tests, medicine, diagnosis, pick) ==
    LET id == IF pick = 0 THEN Len(rx.orders) + 1 ELSE pick
        new_tests == SeqOf({[order |-> id, test |-> t] : t \in tests.names})
        new_lines == SeqOf({[order |-> id, medicament |-> m] : m \in medicine.names})
    IN  [orders |-> IF pick = 0 THEN Append(rx.orders, a) ELSE rx.orders,
         evals  |-> IF diagnosis THEN rx.evals \cup {a} ELSE rx.evals,
         tests  |-> IF tests.given THEN KeptTests(rx.tests, id) \o new_tests
                    ELSE rx.tests,
         lines  |-> IF medicine.given
                    THEN KeptLines(rx.lines, id, rx.meds) \o new_lines
                    ELSE rx.lines,
         meds   |-> IF medicine.given THEN rx.meds \cup medicine.names ELSE rx.meds]

\* The HTTP status of save_prescription: the HTTPException raised at lines
\* 80 and 90 is caught by `except Exception` (line 481) and answered 500.
SaveStatus(u, a) ==
    IF a \notin DOMAIN appts THEN 404
    ELSE IF InternalUserOfHealthprof(appts[a].healthprof) = NULL THEN 500
    ELSE IF ~IsAssignedDoctor(u, a) THEN 500
    ELSE IF appts[a].state # "confirmed" THEN 400
    ELSE 200

\* save_prescription
SavePrescriptionResult(u, a, tests, medicine, diagnosis, pick) ==
    IF SaveStatus(u, a) # 200 THEN Rx
    ELSE SaveApplied(Rx, a, tests, medicine, diagnosis, pick)

WithinRxBounds(rx) ==
    /\ Len(rx.orders) <= MaxRxOrders
    /\ Len(rx.lines) <= MaxRxLines
    /\ Len(rx.tests) <= MaxRxLines

SetRx(rx) ==
    /\ WithinRxBounds(rx)
    /\ rxOrders' = rx.orders
    /\ rxLines' = rx.lines
    /\ rxTests' = rx.tests
    /\ rxEvals' = rx.evals
    /\ medicaments' = rx.meds

\* The orders the SELECT / UPDATE ... RETURNING of lines 108-175 may return
\* first; 0 when the appointment has none.
Picks(a) == IF OrdersOf(rxOrders, a) = {} THEN {0} ELSE OrdersOf(rxOrders, a)

SavePrescription(u, a, tests, medicine, diagnosis) ==
    /\ \E pick \in Picks(a) :
          SetRx(SavePrescriptionResult(u, a, tests, medicine, diagnosis, pick))
    /\ rxResp' = [endpoint |-> "prescription-save", user |-> u,
                  appointment_id |-> a, status |-> SaveStatus(u, a)]
    /\ UNCHANGED <<slotVars, apptVars, orderVars, authVars, cartVars>>

\* cleanup_default_medicines: delete every line of a default medicine and
\* the medicine itself; committed before the request is examined.
CleanedUp(rx) ==
    [rx EXCEPT !.lines = SelectSeq(@, LAMBDA l : l.medicament # DefaultMedicine),
               !.meds  = @ \ {DefaultMedicine}]

\* The HTTP status of get_appointment_details (/prescription-header)
HeaderStatus(u, a) ==
    IF RoleOfUser(u) # "doctor" THEN 403
    ELSE IF a \notin DOMAIN appts THEN 404
    ELSE IF ~IsAssignedDoctor(u, a) THEN 500
    ELSE IF appts[a].state # "confirmed" THEN 400
    ELSE 200

\* Lines 157-343: the default medicine, a new order with its default line,
\* and a blank evaluation if the appointment has none
HeaderCreated(rx, a) ==
    [rx EXCEPT !.meds = @ \cup {DefaultMedicine},
               !.orders = Append(@, a),
               !.lines = Append(@, [order |-> Len(rx.orders) + 1,
                                    medicament |-> DefaultMedicine]),
               !.evals = @ \cup {a}]

PrescriptionHeaderResult(u, a) ==
    IF RoleOfUser(u) # "doctor" THEN Rx
    ELSE IF HeaderStatus(u, a) # 200 THEN CleanedUp(Rx)
    ELSE HeaderCreated(CleanedUp(Rx), a)

PrescriptionHeader(u, a) ==
    /\ SetRx(PrescriptionHeaderResult(u, a))
    /\ rxResp' = [endpoint |-> "prescription-header", user |-> u,
                  appointment_id |-> a, status |-> HeaderStatus(u, a)]
    /\ UNCHANGED <<slotVars, apptVars, orderVars, authVars, cartVars>>

----------------------------------------------------------------------------
(* Tokens: /logout, /me and the get_current_user dependency                 *)

\* Bearer tokens /login has issued (signed, not expired), and one string
\* that jwt.decode rejects
Tokens == {101, 102}

BadToken == 100

\* payload.get("id") of a decoded token
UserOfToken(t) == t - 100

NoAuthResp == [endpoint |-> "", token |-> 0, status |-> 0]

\* TOKEN_BLACKLIST = set() at import; no request has been answered
AuthIdle == blacklist = {} /\ authResp = NoAuthResp

\* jwt.decode(token, SECRET_KEY, ...) raises JWTError
JWTError(t) == t \notin Tokens

\* auth.decode_jwt_token: the status it raises, 200 when it returns the payload
decode_jwt_token(t) ==
    IF t \in blacklist THEN 401 ELSE IF JWTError(t) THEN 401 ELSE 200

\* appointments.get_current_user: the status it raises, 200 when it returns
get_current_user(t) == IF JWTError(t) THEN 401 ELSE 200

\* logout: TOKEN_BLACKLIST.add(token); the token is not decoded
Logout(t) ==
    /\ blacklist' = blacklist \cup {t}
    /\ authResp' = [endpoint |-> "logout", token |-> t, status |-> 200]
    /\ UNCHANGED <<slotVars, apptVars, orderVars, rxVars, cartVars>>

\* GET /me: decode_jwt_token, then read-only queries
Me(t) ==
    /\ authResp' = [endpoint |-> "me", token |-> t, status |-> decode_jwt_token(t)]
    /\ UNCHANGED <<blacklist, slotVars, apptVars, orderVars, rxVars, cartVars>>

\* POST /request-appointment-cancellation with its
\* Depends(get_current_user): the handler runs if the dependency returns
TokenRequestCancellation(t, id) ==
    /\ IF get_current_user(t) # 200
       THEN /\ authResp' = [endpoint |-> "request-appointment-cancellation",
                            token |-> t, status |-> get_current_user(t)]
            /\ UNCHANGED appts
       ELSE /\ authResp' = [endpoint |-> "request-appointment-cancellation", token |-> t,
                            status |-> RequestCancellationResult(UserOfToken(t), id).status]
            /\ appts' = RequestCancellationResult(UserOfToken(t), id).rows
    /\ UNCHANGED <<now, bk, booked, blacklist, slotVars, orderVars, rxVars, cartVars>>

----------------------------------------------------------------------------
(* Checkout: POST /orders/create (create_order), DELETE /cart/item/{id}     *)

\* cart_items.id of the rows add-to-cart has inserted
CartIds == 1..4

\* Ids a request may name; the last one names no row
CartReqIds == 1..5

\* payload.get("id") of the callers; 0: no usable token
CartCallers == {0, 1, 2}

\* product_list_price has a row for the product's template
HasPrice(p) == p \in {1, 2}

CartRow(patient_id, product_id, quantity) ==
    [patient_id |-> patient_id, product_id |-> product_id, quantity |-> quantity,
     is_delet |-> FALSE, order_pressed |-> FALSE]

\* Rows as add-to-cart inserts them (cart.py:230-244): both flags FALSE.
\* Items 1..3 belong to user 1, item 4 to user 2; product 3 has no price.
CartRows == <<CartRow(1, 1, 1), CartRow(1, 2, 2), CartRow(1, 3, 1), CartRow(2, 1, 1)>>

\* No create_order request is in progress
IdleCo == [pc |-> "idle", user |-> 0, ids |-> {}, items |-> {}, wrote |-> FALSE, status |-> 0]

CartInit == cart = CartRows /\ itemCart = <<>> /\ co = [w \in Workers |-> IdleCo]

\* No cart exists
CartIdle == cart = <<>> /\ itemCart = <<>> /\ co = [w \in Workers |-> IdleCo]

\* The cart and order tables as one value
Shop == [cart |-> cart, status |-> ordStatus, items |-> ordItems, itemCart |-> itemCart]

InvalidItems_Deleted(u, ids) ==
    {id \in ids \cap DOMAIN cart : cart[id].patient_id = u /\ cart[id].is_delet}

\* SELECT ... WHERE id IN (...) AND patient_id = :user_id
\* AND (is_delet = true OR order_pressed = true)
InvalidItems(u, ids) ==
    {id \in ids \cap DOMAIN cart :
        cart[id].patient_id = u /\ (cart[id].is_delet \/ cart[id].order_pressed)}

\* SELECT ci.* ... JOIN product_list_price ... WHERE ci.id IN (...) AND
\* ci.patient_id = :user_id AND neither flag is set
CartItemsOf(u, ids) ==
    {id \in ids \cap DOMAIN cart :
        /\ cart[id].patient_id = u
        /\ ~cart[id].is_delet
        /\ ~cart[id].order_pressed
        /\ HasPrice(cart[id].product_id)}

Pressed_None(rows, u, ids) == rows

\* UPDATE cart_items SET order_pressed = true WHERE id IN (...) AND patient_id = :user_id
Pressed(rows, u, ids) ==
    [id \in DOMAIN rows |->
        IF id \in ids /\ rows[id].patient_id = u
        THEN [rows[id] EXCEPT !.order_pressed = TRUE] ELSE rows[id]]

\* create_order (orders.py:25-248)
CreateOrderResult(u, ids) ==
    IF u = 0 THEN [shop |-> Shop, status |-> 401]
    ELSE IF ids = {} THEN [shop |-> Shop, status |-> 400]
    ELSE IF InvalidItems(u, ids) # {} THEN [shop |-> Shop, status |-> 400]
    ELSE IF CartItemsOf(u, ids) = {} THEN [shop |-> Shop, status |-> 404]
    ELSE LET items == SeqOf(CartItemsOf(u, ids))
         IN  [shop |-> [cart     |-> Pressed(cart, u, ids),
                        status   |-> Append(ordStatus, "pending"),
                        items    |-> Append(ordItems,
                                       [i \in DOMAIN items |->
                                           [product_id |-> cart[items[i]].product_id,
                                            quantity   |-> cart[items[i]].quantity]]),
                        itemCart |-> Append(itemCart, items)],
              status |-> 200]

CreateOrder(u, ids) ==
    /\ cart' = CreateOrderResult(u, ids).shop.cart
    /\ ordStatus' = CreateOrderResult(u, ids).shop.status
    /\ ordItems' = CreateOrderResult(u, ids).shop.items
    /\ itemCart' = CreateOrderResult(u, ids).shop.itemCart
    /\ UNCHANGED <<co, stock, tx, slotVars, apptVars, rxVars, authVars>>

\* delete_cart_item (cart.py:350-405): soft delete of the caller's own item
DeleteCartItem(u, id) ==
    /\ cart' = IF id \in DOMAIN cart /\ cart[id].patient_id = u /\ u # 0
               THEN [cart EXCEPT ![id].is_delet = TRUE] ELSE cart
    /\ UNCHANGED <<co, itemCart, orderVars, slotVars, apptVars, rxVars, authVars>>

(* ---- create_order statement by statement, each request in its own
        transaction (read committed) ---- *)

\* Lines 41-111: the token, the id list and the validation query
CheckoutValidate(w, u, ids) ==
    /\ co[w].pc = "idle"
    /\ co' = [co EXCEPT ![w] =
          IF u = 0 THEN [IdleCo EXCEPT !.pc = "done", !.status = 401]
          ELSE IF ids = {} \/ InvalidItems(u, ids) # {}
          THEN [IdleCo EXCEPT !.pc = "done", !.status = 400]
          ELSE [IdleCo EXCEPT !.pc = "select", !.user = u, !.ids = ids]]
    /\ UNCHANGED <<cart, itemCart, orderVars, slotVars, apptVars, rxVars, authVars>>

\* Lines 113-153: the cart query, answered from what is committed by now
CheckoutSelect(w) ==
    /\ co[w].pc = "select"
    /\ co' = [co EXCEPT ![w] =
          IF CartItemsOf(co[w].user, co[w].ids) = {}
          THEN [IdleCo EXCEPT !.pc = "done", !.status = 404]
          ELSE [@ EXCEPT !.pc = "write", !.items = CartItemsOf(co[w].user, co[w].ids)]]
    /\ UNCHANGED <<cart, itemCart, orderVars, slotVars, apptVars, rxVars, authVars>>

\* cart_items rows the UPDATE of the request of worker w writes
MarkedBy(w) == {id \in co[w].ids \cap DOMAIN cart : cart[id].patient_id = co[w].user}

\* Lines 155-226: the INSERTs and the UPDATE of cart_items; the UPDATE waits
\* while another transaction holds an uncommitted UPDATE of one of its rows.
CheckoutWrite(w) ==
    /\ co[w].pc = "write"
    /\ \A v \in Workers \ {w} : ~(co[v].wrote /\ MarkedBy(v) \cap MarkedBy(w) # {})
    /\ co' = [co EXCEPT ![w] = [@ EXCEPT !.pc = "commit", !.wrote = TRUE]]
    /\ UNCHANGED <<cart, itemCart, orderVars, slotVars, apptVars, rxVars, authVars>>

CheckoutCommit_Revalidate(w) ==
    /\ co[w].pc = "commit"
    /\ LET items == SeqOf({id \in co[w].items : ~cart[id].order_pressed})
       IN  /\ ordStatus' = Append(ordStatus, "pending")
           /\ ordItems' = Append(ordItems,
                             [i \in DOMAIN items |->
                                 [product_id |-> cart[items[i]].product_id,
                                  quantity   |-> cart[items[i]].quantity]])
           /\ itemCart' = Append(itemCart, items)
    /\ cart' = Pressed(cart, co[w].user, co[w].ids)
    /\ co' = [co EXCEPT ![w] = [IdleCo EXCEPT !.pc = "done", !.status = 200]]
    /\ UNCHANGED <<stock, tx, slotVars, apptVars, rxVars, authVars>>

\* Line 229: db.commit() makes the order, its items and the marks visible
CheckoutCommit(w) ==
    /\ co[w].pc = "commit"
    /\ LET items == SeqOf(co[w].items)
       IN  /\ ordStatus' = Append(ordStatus, "pending")
           /\ ordItems' = Append(ordItems,
                             [i \in DOMAIN items |->
                                 [product_id |-> cart[items[i]].product_id,
                                  quantity   |-> cart[items[i]].quantity]])
           /\ itemCart' = Append(itemCart, items)
    /\ cart' = Pressed(cart, co[w].user, co[w].ids)
    /\ co' = [co EXCEPT ![w] = [IdleCo EXCEPT !.pc = "done", !.status = 200]]
    /\ UNCHANGED <<stock, tx, slotVars, apptVars, rxVars, authVars>>

\* The response has been delivered; the worker is free again.
CheckoutReturn(w) ==
    /\ co[w].pc = "done"
    /\ co' = [co EXCEPT ![w] = IdleCo]
    /\ UNCHANGED <<cart, itemCart, orderVars, slotVars, apptVars, rxVars, authVars>>

----------------------------------------------------------------------------
(* Specifications                                                           *)

SlotNext == GenerateDoctorSlots \/ GenerateLegacySlots

\* Slot generation as a function of the request.
\* A generation request has arrived; no appointment and no order exists.
InitSlots == SlotInit /\ ApptInit /\ OrderIdle /\ RxIdle /\ AuthIdle /\ CartIdle

SpecSlots == InitSlots /\ [][SlotNext]_vars

LoopNext == LoopDate \/ LoopAppend \/ LoopExit

\* The enumeration loops of one generator call.
InitLoop == LoopInit /\ ApptInit /\ OrderIdle /\ RxIdle /\ AuthIdle /\ CartIdle

\* The interpreter keeps executing the running call.
SpecLoop == InitLoop /\ [][LoopNext]_vars /\ WF_vars(LoopNext)

\* The worker that serves the requests of a sequential run
SeqWorker == CHOOSE w \in Workers : TRUE

\* No appointment and no order exists.
InitAppt == SlotIdle /\ ApptInit /\ OrderIdle /\ RxIdle /\ AuthIdle /\ CartIdle

\* Orders have been placed; no appointment exists.
InitOrders == SlotIdle /\ ApptInit /\ OrderInit /\ RxIdle /\ AuthIdle /\ CartIdle

\* Requests served one after the other: a request starts only when no other
\* request is in progress.
ApptNext ==
    \/ Tick
    \/ \E u \in Users, id \in ApptIds : AllIdle /\ BookSelect(SeqWorker, u, id)
    \/ BookCheckDate(SeqWorker)
    \/ BookUpdate(SeqWorker)
    \/ BookCommit(SeqWorker)
    \/ BookFail(SeqWorker)
    \/ BookReturn(SeqWorker)
    \/ \E u \in Users, hp \in Healthprofs, ts \in ClientTimes :
          AllIdle /\ AppointmentsNew(u, hp, ts)
    \/ \E u \in Users, r \in GenRequests : AllIdle /\ GetSlots(u, r)
    \/ \E u \in Users, hp \in Healthprofs, ts \in ClientTimes, st \in ClientStates :
          AllIdle /\ AppointmentsCreate(u, hp, ts, st)
    \/ \E u \in Users, id \in ApptIds, d \in ClientTimes \cup {NoDate},
         st \in ClientStates \cup {NullState} :
          AllIdle /\ UpdateAppointment(u, id, d, st)
    \/ \E u \in Users, id \in ApptIds : AllIdle /\ RequestCancellation(u, id)
    \/ \E ids \in {<<>>} \cup {<<i>> : i \in ApptIds} \cup {<<i, j>> : i, j \in ApptIds} :
          AllIdle /\ CancelSlot(ids)
    \/ \E u \in Users, d \in {0} : AllIdle /\ DateSlotCancel(u, d)
    \/ \E id \in ApptIds, t \in ClientTimes :
          AllIdle /\ SlotModify(id, 0, FmtTime12(t))
    \/ \E u \in Users, r \in GenRequests : AllIdle /\ DateSlotModify(u, r, 0)

SpecAppt == InitAppt /\ [][ApptNext]_vars

\* Sequential booking: slot generation, the two booking endpoints and the
\* requests that can set a claimed appointment back to 'free'.
BookingNext ==
    \/ Tick
    \/ \E u \in Users, r \in GenRequests : AllIdle /\ GetSlots(u, r)
    \/ \E u \in Users, id \in ApptIds : AllIdle /\ BookSelect(SeqWorker, u, id)
    \/ BookCheckDate(SeqWorker)
    \/ BookUpdate(SeqWorker)
    \/ BookCommit(SeqWorker)
    \/ BookFail(SeqWorker)
    \/ BookReturn(SeqWorker)
    \/ \E u \in Users, hp \in Healthprofs, ts \in ClientTimes :
          AllIdle /\ AppointmentsNew(u, hp, ts)
    \/ \E u \in Users, id \in ApptIds, d \in ClientTimes \cup {NoDate},
         st \in ClientStates \cup {NullState} :
          AllIdle /\ UpdateAppointment(u, id, d, st)
    \/ \E id \in ApptIds, t \in ClientTimes :
          AllIdle /\ SlotModify(id, 0, FmtTime12(t))

SpecBooking == InitAppt /\ [][BookingNext]_vars

\* Overlapping /book-slot requests against slots a professional generated.
BookRaceNext ==
    \/ Tick
    \/ \E u \in Users, r \in GenRequests : AllIdle /\ GetSlots(u, r)
    \/ \E w \in Workers, u \in Users, id \in ApptIds : BookSelect(w, u, id)
    \/ \E w \in Workers : BookCheckDate(w)
    \/ \E w \in Workers : BookUpdate(w)
    \/ \E w \in Workers : BookCommit(w)
    \/ \E w \in Workers : BookFail(w)
    \/ \E w \in Workers : BookReturn(w)

SpecBookRace == InitAppt /\ [][BookRaceNext]_vars

\* Only /generate-slots is served, one request after the other.
GenerateNext ==
    \/ Tick
    \/ \E u \in GenCallers, request \in WideGenRequests :
          GetSlotsCapped(u, request, MaxGenRows)

SpecGenerate == InitAppt /\ [][GenerateNext]_vars

\* Confirmed appointments exist; no prescription has been written.
InitRx ==
    /\ SlotIdle
    /\ now = 0 /\ appts = RxAppts /\ bk = [w \in Workers |-> IdleWorker] /\ booked = {1, 3}
    /\ OrderIdle
    /\ RxInit
    /\ AuthIdle
    /\ CartIdle

\* Prescription requests served one after the other.
RxNext ==
    \/ \E u \in RxCallers, a \in RxApptIds, tests \in Payloads(TestNames),
          medicine \in Payloads(MedNames), diagnosis \in BOOLEAN :
          SavePrescription(u, a, tests, medicine, diagnosis)
    \/ \E u \in RxCallers, a \in RxApptIds : PrescriptionHeader(u, a)

SpecRx == InitRx /\ [][RxNext]_vars

\* Appointments of two patients in the states a cancellation request may meet
CancelAppts ==
    <<Row(540, 1, 1, "confirmed"), Row(570, 1, 2, "confirmed"),
      Row(600, 1, 1, "booked"), Row(630, 1, NULL, "free")>>

\* appointment_id values of the requests; the last one names no row
CancelApptIds == 1..(Len(CancelAppts) + 1)

InitCancelRequest ==
    /\ SlotIdle
    /\ now = 0 /\ appts = CancelAppts /\ bk = [w \in Workers |-> IdleWorker]
    /\ booked = {1, 2, 3}
    /\ OrderIdle
    /\ RxIdle
    /\ AuthIdle
    /\ CartIdle

\* Cancellation requests among the other requests that set a state.
CancelRequestNext ==
    \/ \E u \in Users, id \in CancelApptIds : RequestCancellation(u, id)
    \/ \E u \in Users, id \in CancelApptIds, st \in ClientStates :
          UpdateAppointment(u, id, NoDate, st)
    \/ \E ids \in {<<i>> : i \in CancelApptIds}
                    \cup {<<i, j>> : i, j \in CancelApptIds} : CancelSlot(ids)

SpecCancelRequest == InitCancelRequest /\ [][CancelRequestNext]_vars

\* Two patients hold confirmed appointments; no token is blacklisted.
InitAuth ==
    /\ SlotIdle
    /\ now = 0 /\ appts = CancelAppts /\ bk = [w \in Workers |-> IdleWorker]
    /\ booked = {1, 2, 3}
    /\ OrderIdle
    /\ RxIdle
    /\ AuthIdle
    /\ CartIdle

\* Logout among requests that present a token.
AuthNext ==
    \/ \E t \in Tokens \cup {BadToken} : Logout(t)
    \/ \E t \in Tokens \cup {BadToken} : Me(t)
    \/ \E t \in Tokens \cup {BadToken}, id \in CancelApptIds : TokenRequestCancellation(t, id)

SpecAuth == InitAuth /\ [][AuthNext]_vars

\* Two users have filled their carts; no order exists.
InitCheckout ==
    /\ SlotIdle
    /\ ApptInit
    /\ OrderIdle
    /\ RxIdle
    /\ AuthIdle
    /\ CartInit

\* Checkout and removal requests served one after the other.
CheckoutNext ==
    \/ \E u \in CartCallers, ids \in SUBSET CartReqIds : CreateOrder(u, ids)
    \/ \E u \in CartCallers, id \in CartReqIds : DeleteCartItem(u, id)

SpecCheckout == InitCheckout /\ [][CheckoutNext]_vars

\* Ids the overlapping requests name: two items of user 1, one of user 2
RaceIds == {1, 2, 4}

\* Overlapping create_order requests, each in its own transaction.
CheckoutRaceNext ==
    \/ \E w \in Workers, u \in CartCallers, ids \in SUBSET RaceIds :
          CheckoutValidate(w, u, ids)
    \/ \E w \in Workers : CheckoutSelect(w)
    \/ \E w \in Workers : CheckoutWrite(w)
    \/ \E w \in Workers : CheckoutCommit(w)
    \/ \E w \in Workers : CheckoutReturn(w)

SpecCheckoutRace == InitCheckout /\ [][CheckoutRaceNext]_vars

\* Order status updates served one after the other.
OrderNext ==
    \/ \E o \in Orders, ns \in ClientStatuses : TxIdle /\ OrderBegin(SeqWorker, o, ns)
    \/ OrderCheck(SeqWorker)
    \/ OrderSetStatus(SeqWorker)
    \/ OrderDeductRead(SeqWorker)
    \/ OrderDeductWrite(SeqWorker)
    \/ OrderCommit(SeqWorker)
    \/ OrderFail(SeqWorker)
    \/ OrderReturn(SeqWorker)

SpecOrders == InitOrders /\ [][OrderNext]_vars

\* An order id no ecom_orders row has
UnknownOrder == 3

\* Every valid status and one invalid status
AnyStatuses == VALID_STATUSES \cup {"shipped"}

\* Two pending orders of one line each; no appointment exists.
InitStatus ==
    /\ SlotIdle
    /\ ApptInit
    /\ ordStatus = [o \in Orders |-> "pending"]
    /\ ordItems \in {<<a, b>> : a \in OneLine, b \in OneLine}
    /\ stock \in [{1} -> 0..MaxStock] \cup [{1, 2} -> 0..MaxStock]
    /\ tx = [w \in Workers |-> IdleTx]
    /\ RxIdle
    /\ AuthIdle
    /\ CartIdle

\* Status updates of every kind, served one after the other.
StatusNext ==
    \/ \E o \in Orders \cup {UnknownOrder}, ns \in AnyStatuses :
          TxIdle /\ OrderBegin(SeqWorker, o, ns)
    \/ OrderCheck(SeqWorker)
    \/ OrderSetStatus(SeqWorker)
    \/ OrderDeductRead(SeqWorker)
    \/ OrderDeductWrite(SeqWorker)
    \/ OrderCommit(SeqWorker)
    \/ OrderFail(SeqWorker)
    \/ OrderReturn(SeqWorker)

SpecStatus == InitStatus /\ [][StatusNext]_vars

\* Overlapping requests to complete an order, each in its own transaction.
CompletionRaceNext ==
    \/ \E w \in Workers, o \in Orders : OrderBegin(w, o, "completed")
    \/ \E w \in Workers : OrderCheck(w)
    \/ \E w \in Workers : OrderSetStatus(w)
    \/ \E w \in Workers : OrderDeductRead(w)
    \/ \E w \in Workers : OrderDeductWrite(w)
    \/ \E w \in Workers : OrderCommit(w)
    \/ \E w \in Workers : OrderFail(w)
    \/ \E w \in Workers : OrderReturn(w)

SpecCompletionRace == InitOrders /\ [][CompletionRaceNext]_vars

----------------------------------------------------------------------------
(* Properties of booking                                                    *)

\* "in the future": strictly after the instant of the check, or not before it
Future(date, at, strict) == IF strict THEN date > at ELSE date >= at

\* What a step of worker w's /book-slot request may do to the table
BookSlotStep(w, strict) ==
    IF bk[w].pc # "done" /\ bk'[w].pc = "done" /\ bk'[w].status = 200
    THEN LET id == bk[w].id
             p  == PatientOfUser(bk[w].user)
         IN  /\ p # NULL
             /\ id \in DOMAIN appts
             /\ appts[id].state = "free"
             /\ Future(appts[id].appointment_date, bk'[w].checked_at, strict)
             /\ appts' = [appts EXCEPT ![id] =
                            [@ EXCEPT !.patient = p, !.state = "confirmed"]]
    ELSE bk'[w] # bk[w] => appts' = appts

\* What an /appointments_new request may do to the table
AppointmentsNewStep(u, hp, ts, strict) ==
    AppointmentsNew(u, hp, ts) =>
        IF AppointmentsNewSucceeds(u, hp, ts)
        THEN \E i \in DOMAIN appts :
                /\ PatientOfUser(u) # NULL
                /\ appts[i].state = "free"
                /\ appts[i].healthprof = hp
                /\ appts[i].appointment_date = ts
                /\ Future(appts[i].appointment_date, now, strict)
                /\ appts' = [appts EXCEPT ![i] =
                               [@ EXCEPT !.patient = PatientOfUser(u), !.state = "booked"]]
        ELSE appts' = appts

BookingStep(strict) ==
    /\ \A w \in Workers : BookSlotStep(w, strict)
    /\ \A u \in Users, hp \in Healthprofs, ts \in ClientTimes :
          AppointmentsNewStep(u, hp, ts, strict)

PatientMatchesState ==
    \A i \in DOMAIN appts :
        /\ appts[i].state = "free" => appts[i].patient = NULL
        /\ appts[i].state \in {"booked", "confirmed"} => appts[i].patient # NULL

\* C7: under overlapping requests every /book-slot that answers 200 has
\* overwritten the row, whatever its state had become: the row then carries
\* the patient of the request that committed last.
LastCommitWins ==
    [][\A w \in Workers :
          (bk[w].pc = "commit" /\ bk'[w].pc = "done" /\ bk'[w].status = 200)
          => /\ appts'[bk[w].id].patient = bk[w].patient
             /\ appts'[bk[w].id].state = "confirmed"]_vars

\* Two patients have both been told their booking of the same appointment
\* succeeded; the row names only one of them.
DoubleBookingWitness ==
    \E v, w \in Workers :
        /\ v # w
        /\ bk[v].pc = "done" /\ bk[v].status = 200
        /\ bk[w].pc = "done" /\ bk[w].status = 200
        /\ bk[v].id = bk[w].id
        /\ bk[v].patient # bk[w].patient
        /\ appts[bk[w].id].patient = bk[w].patient

----------------------------------------------------------------------------
(* Properties of slot generation                                            *)

ReqStart == ParseTime12(slotReq.start_time)
ReqEnd   == ParseTime12(slotReq.end_time)

\* The timestamps start + k*duration strictly before the end time, on every
\* date of the request.
ExpectedSameDay ==
    {Combine(d, ReqStart + k * slotReq.duration) :
        d \in slotReq.start_date..slotReq.end_date,
        k \in {j \in 0..MinutesPerDay : ReqStart + j * slotReq.duration < ReqEnd}}

Range(s) == {s[i] : i \in 1..Len(s)}

Injective(s) == \A i, j \in 1..Len(s) : s[i] = s[j] => i = j

\* C9: for a window with start time earlier than end time, both generators
\* return, without repetition, exactly the timestamps start + k*duration that
\* lie strictly before the end time, for every date from start_date to
\* end_date inclusive.
SameDayWindowExact ==
    (slotPc = "done" /\ ReqStart < ReqEnd) =>
        /\ Range(slotOut.telem) = {Fmt12(t) : t \in ExpectedSameDay}
        /\ Injective(slotOut.telem)
        /\ Range(slotOut.legacy) = {Fmt24(t) : t \in ExpectedSameDay}
        /\ Injective(slotOut.legacy)

\* The scenario of the specification: one day, 09:00-11:00, 30 minutes.
SameDayWindowWitness ==
    /\ slotPc = "done"
    /\ slotReq = [start_date |-> 0, end_date |-> 0,
                  start_time |-> <<9, 0, "AM">>, end_time |-> <<11, 0, "AM">>,
                  duration |-> 30]
    /\ slotOut.telem = <<<<0, 9, 0, "AM">>, <<0, 9, 30, "AM">>,
                         <<0, 10, 0, "AM">>, <<0, 10, 30, "AM">>>>
    /\ slotOut.legacy = <<<<0, 9, 0, "00">>, <<0, 9, 30, "00">>,
                          <<0, 10, 0, "00">>, <<0, 10, 30, "00">>>>

\* ParseStamp12 of every entry of a generated list
Stamps(out) == [i \in 1..Len(out) |-> ParseStamp12(out[i])]

\* C10: for a generation request with end time at or before start time and
\* a following day inside the date range, the generated slots lie on the
\* start day and on the following day, a slot of the evening and the slot
\* that follows it on the next morning are exactly one duration apart, and
\* no slot is produced twice.
MidnightWindowContiguous ==
    (slotPc = "done" /\ ReqStart >= ReqEnd /\ ReqEnd > 0
        /\ slotReq.start_date < slotReq.end_date) =>
        LET ts == Stamps(slotOut.telem)
        IN  /\ \E i \in 1..Len(ts) : ts[i] \div MinutesPerDay = slotReq.start_date
            /\ \E i \in 1..Len(ts) : ts[i] \div MinutesPerDay = slotReq.start_date + 1
            /\ \A i \in 1..(Len(ts) - 1) :
                  (/\ ts[i] % MinutesPerDay >= ReqStart
                   /\ ts[i + 1] % MinutesPerDay < ReqEnd) =>
                      ts[i + 1] - ts[i] = slotReq.duration
            /\ Injective(slotOut.telem)

----------------------------------------------------------------------------
(* Properties of order completion                                           *)

\* Sum of the quantities the lines of items order of product p
RECURSIVE SumQty(_, _)
SumQty(items, p) ==
    IF items = <<>> THEN 0
    ELSE (IF Head(items).product_id = p THEN Head(items).quantity ELSE 0)
         + SumQty(Tail(items), p)

\* Every line of items deducted once from the numbers st
Deducted(st, items) == [p \in DOMAIN st |-> st[p] - SumQty(items, p)]

\* The line asks for a product without stock row or for more than st holds
LineShort(st, item) ==
    \/ item.product_id \notin DOMAIN st
    \/ st[item.product_id] < item.quantity

AnyLineShort(st, items) == \E i \in 1..Len(items) : LineShort(st, items[i])

\* Worker w has answered a request to complete an order
CompletionAnswered(w) == tx[w].pc = "done" /\ tx[w].new_status = "completed"

\* C4: a request to complete an order of which at least one line names a
\* product without stock row or asks for more than the stock holds is
\* answered 400, and the order statuses and the stock are what they were
\* when the request arrived.
InsufficientStockRejects ==
    \A w \in Workers :
        (CompletionAnswered(w)
            /\ AnyLineShort(tx[w].pre_stock, ordItems[tx[w].order])) =>
            /\ tx[w].status = 400
            /\ ordStatus = tx[w].pre_status
            /\ stock = tx[w].pre_stock

\* A two-line order whose first line is covered and whose second is not has
\* been refused.
InsufficientStockWitness ==
    \E w \in Workers :
        /\ CompletionAnswered(w)
        /\ tx[w].status = 400
        /\ tx[w].pre_status[tx[w].order] = "pending"
        /\ Len(ordItems[tx[w].order]) = 2
        /\ ~LineShort(tx[w].pre_stock, ordItems[tx[w].order][1])
        /\ LineShort(tx[w].pre_stock, ordItems[tx[w].order][2])

\* C5: a request to complete an order that is not yet completed and whose
\* every line is covered by the stock is answered 200 unless the database
\* fails; answered 200, the order is 'completed', no other order changed,
\* and each product's stock is what it was less the quantities of the
\* order's lines of that product.
SufficientStockDeductsOnce ==
    \A w \in Workers :
        (CompletionAnswered(w)
            /\ tx[w].pre_status[tx[w].order] # "completed"
            /\ ~AnyLineShort(tx[w].pre_stock, ordItems[tx[w].order])) =>
            /\ tx[w].status \in {200, 500}
            /\ tx[w].status = 200 =>
                  /\ ordStatus = [tx[w].pre_status EXCEPT ![tx[w].order] = "completed"]
                  /\ stock = Deducted(tx[w].pre_stock, ordItems[tx[w].order])

\* An order with two lines of the same product has been completed.
SufficientStockWitness ==
    \E w \in Workers :
        /\ CompletionAnswered(w)
        /\ tx[w].status = 200
        /\ Len(ordItems[tx[w].order]) = 2
        /\ ordItems[tx[w].order][1].product_id = ordItems[tx[w].order][2].product_id
        /\ stock # tx[w].pre_stock

\* C6: while a status update is served and after it has been answered, the
\* committed order statuses and stock are either what they were when the
\* request arrived, or, once the request is answered 200, the new status
\* together with every deduction; a request answered 500 leaves them as
\* they were.
StatusAndStockAtomic ==
    \A w \in Workers :
        tx[w].pc # "idle" =>
            IF tx[w].pc = "done" /\ tx[w].status = 200
            THEN /\ ordStatus = [tx[w].pre_status EXCEPT ![tx[w].order] = tx[w].new_status]
                 /\ stock = IF tx[w].new_status = "completed"
                            THEN Deducted(tx[w].pre_stock, ordItems[tx[w].order])
                            ELSE tx[w].pre_stock
            ELSE /\ ordStatus = tx[w].pre_status
                 /\ stock = tx[w].pre_stock

\* A completion that had updated the status and stock of two lines failed.
RollbackWitness ==
    \E w \in Workers :
        /\ CompletionAnswered(w)
        /\ tx[w].status = 500
        /\ tx[w].rolled_back >= 2
        /\ ordStatus[tx[w].order] = "pending"

\* C8: of overlapping completions, each writes to a stock row the number
\* its own SELECT of the deduction loop returned less the line's quantity,
\* whatever was committed to the row since, and its commit makes that
\* number the row's number.
CompletionWritesOwnRead ==
    [][\A w \in Workers :
          /\ (tx[w].pc = "deduct_write" /\ tx'[w].pc = "deduct_read") =>
                LET item == tx[w].items[tx[w].i]
                IN  tx'[w].w_stock[item.product_id] = tx[w].read - item.quantity
          /\ (tx[w].pc = "commit" /\ tx'[w].pc = "done" /\ tx'[w].status = 200) =>
                \A p \in DOMAIN tx[w].w_stock : stock'[p] = tx[w].w_stock[p]
      ]_vars

\* Two completions of different orders that both saw the same stock of a
\* product, too little for both, were both accepted, and the stock left is
\* not the stock less both quantities.
OversellWitness ==
    \E p \in DOMAIN stock :
        LET q1 == SumQty(ordItems[tx[1].order], p)
            q2 == SumQty(ordItems[tx[2].order], p)
        IN  /\ CompletionAnswered(1) /\ tx[1].status = 200
            /\ CompletionAnswered(2) /\ tx[2].status = 200
            /\ tx[1].order # tx[2].order
            /\ tx[1].pre_stock = tx[2].pre_stock
            /\ q1 > 0 /\ q2 > 0
            /\ tx[1].pre_stock[p] < q1 + q2
            /\ stock[p] # tx[1].pre_stock[p] - q1 - q2

----------------------------------------------------------------------------
(* Properties of /generate-slots                                            *)

\* Rows i and j belong to one professional and carry one timestamp
SameSlot(rows, i, j) ==
    /\ rows[i].healthprof = rows[j].healthprof
    /\ rows[i].appointment_date = rows[j].appointment_date

\* C11: a /generate-slots request keeps every existing row and appends only
\* rows of the caller's professional with state 'free', no patient and a
\* timestamp no earlier row of that professional carries; the same request
\* made again would insert nothing; and no professional ever has two rows
\* with the same timestamp.
GenerationInsertsOnlyNew ==
    [][/\ Len(appts') >= Len(appts)
       /\ \A i \in DOMAIN appts : appts'[i] = appts[i]
       /\ \A i \in (DOMAIN appts') \ (DOMAIN appts) :
             /\ appts'[i].state = "free"
             /\ appts'[i].patient = NULL
             /\ \A j \in 1..(i - 1) : ~SameSlot(appts', i, j)
       /\ appts' # appts =>
             \A u \in GenCallers, request \in WideGenRequests :
                GetSlotsCapped(u, request, MaxGenRows) =>
                   (UniqueNewSlots(u, request) = <<>>)'
      ]_vars

\* Both professionals hold rows; one of a professional's rows was added by a
\* later request whose window overlapped the rows already there.
GenerationWitness ==
    /\ Len(appts) = MaxGenRows
    /\ \E i, j \in DOMAIN appts : appts[i].healthprof # appts[j].healthprof
    /\ \E i, j \in DOMAIN appts :
          /\ i < j
          /\ appts[i].healthprof = appts[j].healthprof
          /\ appts[j].appointment_date < appts[i].appointment_date

----------------------------------------------------------------------------
(* Properties of prescriptions                                              *)

\* An empty mapping sent as med_tests or medicine
EmptyMapping == [given |-> TRUE, names |-> {}]

\* C12: an accepted /prescription-save whose med_tests and medicine are both
\* empty mappings leaves the appointment's prescription order without any
\* lab-test row and without any line of a prescribed medicine (the
\* placeholder line of 'Default Medicine' is not counted).
EmptySaveClearsPrescription ==
    \A u \in RxCallers, a \in RxApptIds, diagnosis \in BOOLEAN :
       SaveStatus(u, a) = 200 =>
          \A pick \in Picks(a) :
             LET after == SavePrescriptionResult(u, a, EmptyMapping, EmptyMapping,
                                                 diagnosis, pick)
                 id    == IF pick = 0 THEN Len(rxOrders) + 1 ELSE pick
             IN  /\ \A i \in DOMAIN after.tests : after.tests[i].order # id
                 /\ \A i \in DOMAIN after.lines :
                       after.lines[i].order = id =>
                          after.lines[i].medicament = DefaultMedicine

\* C13: no appointment has two prescription orders.
OneOrderPerAppointment ==
    \A a \in RxApptIds : Cardinality(OrdersOf(rxOrders, a)) <= 1

\* C17: a /prescription-save by a caller who is not the internal user of the
\* appointment's professional is answered 403 and writes no prescription
\* order, evaluation, lab-test or medicine row.
SaveByOtherCallerIs403 ==
    [][(/\ rxResp' # rxResp
        /\ rxResp'.endpoint = "prescription-save"
        /\ rxResp'.appointment_id \in DOMAIN appts
        /\ ~IsAssignedDoctor(rxResp'.user, rxResp'.appointment_id)) =>
           /\ rxResp'.status = 403
           /\ UNCHANGED rxTables
      ]_vars

----------------------------------------------------------------------------
(* Properties of the appointment state                                      *)

\* The appointment states the specification names
AppointmentStates == {"free", "booked", "confirmed", "cancel request", "cancelled"}

\* C14: the state of every appointment is one of 'free', 'booked',
\* 'confirmed', 'cancel request' and 'cancelled'.
StateInVocabulary == \A i \in DOMAIN appts : appts[i].state \in AppointmentStates

\* C15: a cancellation is applied only for the appointment's patient or
\* professional; /specific-slot-cancel identifies no caller at all, so no
\* request to it changes an appointment.
UnidentifiedCallerCancelsNothing ==
    [][\A id \in ApptIds : CancelSlot(<<id>>) => appts' = appts]_vars

\* The appointment is assigned to the caller's patient and is confirmed
OwnConfirmed(u, id) ==
    /\ id \in DOMAIN appts
    /\ PatientOfUser(u) # NULL
    /\ appts[id].patient = PatientOfUser(u)
    /\ appts[id].state = "confirmed"

\* C16: /request-appointment-cancellation sets the state to 'cancel request'
\* exactly when the appointment is assigned to the caller's patient and is
\* 'confirmed'; any other request is answered with an error and leaves every
\* appointment as it is.
CancelRequestOnlyOwnConfirmed ==
    \A u \in Users, id \in CancelApptIds :
       LET r == RequestCancellationResult(u, id)
       IN  IF OwnConfirmed(u, id)
           THEN /\ r.status = 200
                /\ r.rows = [appts EXCEPT ![id].state = "cancel request"]
           ELSE /\ r.status \in {400, 403, 404}
                /\ r.rows = appts

\* A cancellation request was applied to one appointment while another
\* confirmed appointment of a different patient stayed confirmed.
CancelRequestWitness ==
    \E id, other \in DOMAIN appts :
       /\ appts[id].state = "cancel request"
       /\ appts[id].patient \in Patients
       /\ appts[other].state = "confirmed"
       /\ appts[other].patient \in Patients \ {appts[id].patient}

----------------------------------------------------------------------------
(* Properties of logout                                                     *)

\* C18: once /logout was called with a token, every later request that
\* presents this token to an authenticated endpoint is answered 401.
LoggedOutTokenRejected ==
    [][(/\ authResp' # authResp
        /\ authResp'.endpoint # "logout"
        /\ authResp'.token \in blacklist) => authResp'.status = 401]_vars

----------------------------------------------------------------------------
(* Properties of checkout                                                   *)

\* The caller owns an item among ids that is soft-deleted or already ordered
NamesFlaggedOwnItem(u, ids) ==
    \E id \in ids \cap DOMAIN cart :
       cart[id].patient_id = u /\ (cart[id].is_delet \/ cart[id].order_pressed)

\* C19: a create_order request naming a cart item of the caller that is
\* soft-deleted or already ordered is answered 400 and creates no order, no
\* order item and marks no cart item.
FlaggedItemRejectsCheckout ==
    \A u \in CartCallers \ {0}, ids \in SUBSET CartReqIds :
       NamesFlaggedOwnItem(u, ids) =>
          /\ CreateOrderResult(u, ids).status = 400
          /\ CreateOrderResult(u, ids).shop = Shop

\* An order exists, and a caller holds both a flagged item and an item that
\* could still be ordered: only the flag keeps a request naming both from
\* creating an order.
FlaggedItemWitness ==
    /\ itemCart # <<>>
    /\ \E u \in CartCallers, a, b \in DOMAIN cart :
          /\ NamesFlaggedOwnItem(u, {a})
          /\ CartItemsOf(u, {b}) = {b}
          /\ CreateOrderResult(u, {b}).status = 200
          /\ CreateOrderResult(u, {a, b}).status = 400

\* cart_id values of the order items of all orders
OrderedItems == UNION {Range(itemCart[o]) : o \in DOMAIN itemCart}

\* C20 as stated: every create_order request naming a cart item that an
\* earlier order was made from is rejected, whoever sends it.
OrderedItemRejectsAnyCheckout ==
    \A u \in CartCallers, ids \in SUBSET CartReqIds :
       ids \cap OrderedItems # {} => CreateOrderResult(u, ids).status # 200

\* C20: every cart item an order item was made from has order_pressed =
\* TRUE; a later create_order by its owner naming it is answered 400 and
\* changes nothing (a request by another caller ignores the item); no cart
\* item is the source of order items of two orders.
OrderedItemNotReordered ==
    /\ \A id \in OrderedItems : cart[id].order_pressed
    /\ \A id \in OrderedItems, ids \in SUBSET CartReqIds :
          id \in ids =>
             /\ CreateOrderResult(cart[id].patient_id, ids).status = 400
             /\ CreateOrderResult(cart[id].patient_id, ids).shop = Shop
    /\ \A u \in CartCallers, ids \in SUBSET CartReqIds :
          CartItemsOf(u, ids) \cap OrderedItems = {}
    /\ \A o1, o2 \in DOMAIN itemCart :
          o1 # o2 => Range(itemCart[o1]) \cap Range(itemCart[o2]) = {}

\* Two orders exist, and an ordered item sits
\* beside an item of another user that can still be ordered.
OrderedItemWitness ==
    /\ Len(itemCart) >= 2
    /\ \E a \in OrderedItems, b \in DOMAIN cart :
          /\ cart[b].patient_id # cart[a].patient_id
          /\ CreateOrderResult(cart[b].patient_id, {a, b}).status = 200

----------------------------------------------------------------------------
(* Properties of order status updates                                       *)

\* The order named by the request of worker w was 'completed' when the
\* request arrived
WasCompleted(w) ==
    /\ tx[w].order \in DOMAIN tx[w].pre_status
    /\ tx[w].pre_status[tx[w].order] = "completed"

\* C21: a status update for an order that is 'completed' when the request
\* arrives, whatever the new status, goes no further than the first checks,
\* is answered 400 and leaves the order statuses and the stock as they were.
CompletedIsTerminal ==
    \A w \in Workers :
        (tx[w].pc # "idle" /\ WasCompleted(w)) =>
            /\ tx[w].pc = "done"
            /\ tx[w].status = 400
            /\ ordStatus = tx[w].pre_status
            /\ stock = tx[w].pre_stock

\* A request to cancel a completed order, whose completion had deducted
\* stock, was refused.
CompletedIsTerminalWitness ==
    \E w \in Workers :
        /\ tx[w].pc = "done"
        /\ WasCompleted(w)
        /\ tx[w].new_status = "cancelled"
        /\ \E p \in DOMAIN stock : SumQty(ordItems[tx[w].order], p) > 0

\* Both workers have answered 200 to a completion of the same order
BothCompleted(o) ==
    \A w \in Workers :
        CompletionAnswered(w) /\ tx[w].status = 200 /\ tx[w].order = o

\* C22: a request to complete an order can commit although an overlapping
\* request has completed the same order in the meantime: it had passed the
\* 'already completed' check before, and its commit deducts the quantities
\* of the order's lines from the stock once more.
OverlappingCompletionsDeductTwice ==
    [][\A w, v \in Workers :
          (/\ w # v
           /\ tx[w].pc = "commit" /\ tx[w].new_status = "completed"
           /\ tx'[w].pc = "done" /\ tx'[w].status = 200
           /\ CompletionAnswered(v) /\ tx[v].status = 200
           /\ tx[v].order = tx[w].order) =>
              /\ ordStatus[tx[w].order] = "completed"
              /\ tx[w].pre_status[tx[w].order] # "completed"
              /\ stock' = Deducted(stock, ordItems[tx[w].order])
      ]_vars

\* One order was completed twice; each request saw enough stock for the
\* order, and the stock of a product of the order is now negative.
DoubleDeductionWitness ==
    \E o \in Orders, p \in DOMAIN stock :
        /\ BothCompleted(o)
        /\ \A w \in Workers : ~AnyLineShort(tx[w].pre_stock, ordItems[o])
        /\ SumQty(ordItems[o], p) > 0
        /\ stock[p] < 0

\* C24: after any sequence of non-overlapping completions of orders with
\* positive line quantities no stock_lot.number is negative.
StockNeverNegative == \A p \in DOMAIN stock : stock[p] >= 0

\* C30: a status update to a valid status other than 'completed' leaves
\* the stock and every other order as they were and, answered 200, has set
\* the order's status; an update with an invalid status or for an unknown
\* order is answered 400 or 404 and leaves the order statuses and the stock
\* as they were.
OtherStatusTouchesOneOrder ==
    \A w \in Workers :
        (tx[w].pc # "idle" /\ tx[w].new_status # "completed") =>
            /\ stock = tx[w].pre_stock
            /\ \A o \in DOMAIN ordStatus \ {tx[w].order} : ordStatus[o] = tx[w].pre_status[o]
            /\ (tx[w].pc = "done" /\ tx[w].status = 200) =>
                  ordStatus = [tx[w].pre_status EXCEPT ![tx[w].order] = tx[w].new_status]
            /\ ~(tx[w].pc = "done" /\ tx[w].status = 200) => ordStatus = tx[w].pre_status
            /\ (tx[w].new_status \notin VALID_STATUSES
                    \/ tx[w].order \notin DOMAIN ordStatus) =>
                  /\ tx[w].pc = "done"
                  /\ tx[w].status = IF tx[w].new_status \notin VALID_STATUSES
                                    THEN 400 ELSE 404

\* An order was set to 'ready_for_delivery' after another order had been
\* completed and had taken stock.
OtherStatusWitness ==
    \E w \in Workers, o \in DOMAIN ordStatus :
        /\ tx[w].pc = "done" /\ tx[w].status = 200
        /\ tx[w].new_status = "ready_for_delivery"
        /\ ordStatus[tx[w].order] = "ready_for_delivery"
        /\ o # tx[w].order /\ ordStatus[o] = "completed"
        /\ \E p \in DOMAIN stock : SumQty(ordItems[o], p) > 0

----------------------------------------------------------------------------
(* Properties of overlapping checkouts                                      *)

\* C23: a create_order request commits an order made of the cart items its
\* own cart query returned, also when an overlapping request has marked and
\* ordered one of them in the meantime; so two overlapping requests naming
\* the same unprocessed cart item both pass the validation and both create
\* an order from it.
CheckoutOrdersOwnRead ==
    [][\A w \in Workers :
          (co[w].pc = "commit" /\ co'[w].pc = "done") =>
             /\ co'[w].status = 200
             /\ Len(itemCart') = Len(itemCart) + 1
             /\ Range(itemCart'[Len(itemCart')]) = co[w].items
             /\ \A id \in co[w].items : cart'[id].order_pressed
      ]_vars

\* Two orders hold an order item made from the same cart item.
DoubleOrderWitness ==
    \E o1, o2 \in DOMAIN itemCart :
        o1 # o2 /\ Range(itemCart[o1]) \cap Range(itemCart[o2]) # {}

----------------------------------------------------------------------------
(* Properties of the generated window                                       *)

\* datetime.combine(start_date, start_time) and
\* datetime.combine(end_date, end_time) of the request under consideration
ReqStartDatetime == Combine(slotReq.start_date, ReqStart)
ReqEndDatetime   == Combine(slotReq.end_date, ReqEnd)

\* C28: every timestamp generated for a request that /generate-slots lets
\* through (start not after end, neither of them in the past) lies at or
\* after start_date+start_time and strictly before end_date+end_time.
GeneratedInsideWindow ==
    (slotPc # "ready" /\ ReqStartDatetime <= ReqEndDatetime
        /\ now <= ReqStartDatetime) =>
        \A i \in 1..Len(slotOut.telem) :
            /\ ParseStamp12(slotOut.telem[i]) >= ReqStartDatetime
            /\ ParseStamp12(slotOut.telem[i]) < ReqEndDatetime

----------------------------------------------------------------------------
(* Properties of the enumeration loops                                      *)

\* C29: for every request body that parses, whatever integer its duration
\* is, the generator's loops come to an end: the call returns its list (or,
\* counted here as an end too, raises out of the loop).
EnumerationTerminates == <>(gen.pc \in {"done", "OverflowError"})

\* With a positive duration every call returns, with the list the
\* generators are defined to produce.
PositiveDurationReturns ==
    (slotReq.duration > 0) =>
        <>(/\ gen.pc = "done"
           /\ LET out == IF gen.legacy
                         THEN generate_appointment_slots(slotReq)
                         ELSE generate_doctor_appointment_slots(slotReq)
              IN  out = [i \in 1..Len(gen.slots) |->
                            IF gen.legacy THEN Fmt24(gen.slots[i])
                            ELSE Fmt12(gen.slots[i])])

----------------------------------------------------------------------------
(* Properties of slot management                                            *)

\* C25: /specific-slot-cancel commits the cancellation of each id on its
\* own: when a later id of the list fails, the request is answered 404 and
\* the ids before it stay cancelled; when the first id fails nothing is
\* changed, and when none fails all of them are cancelled.
CancelCommitsEachId ==
    \A a, b \in CancelApptIds :
        LET r     == CancelEach(appts, <<a, b>>)
            first == update_state(appts, a, "Cancel")
        IN  IF SlotCancelFails(appts, a)
            THEN r = [rows |-> appts, status |-> 404]
            ELSE IF SlotCancelFails(first, b)
            THEN r = [rows |-> first, status |-> 404]
            ELSE r = [rows |-> update_state(first, b, "Cancel"), status |-> 200]

\* An appointment is cancelled, another one is not, and a request naming
\* the second and then an id without a row would cancel it and answer 404.
CancelCommitsEachIdWitness ==
    \E a, c \in DOMAIN appts, b \in CancelApptIds \ DOMAIN appts :
        /\ appts[c].state = "Cancel"
        /\ appts[a].state \in {"free", "confirmed"}
        /\ CancelEach(appts, <<a, b>>).status = 404
        /\ CancelEach(appts, <<a, b>>).rows[a].state = "Cancel"

\* C27: /specific-slot-modification moves an appointment only when the
\* target timestamp is in the future and the professional has no other
\* appointment that is free, booked or confirmed at that timestamp.
MoveOnlyToUnoccupiedSlot ==
    \A id \in DOMAIN appts, t \in ClientTimes :
        LET time     == FmtTime12(t)
            target   == Combine(0, ParseTime12(time))
            matching == MatchingDate(appts[id].healthprof, 0, time)
        IN  \A first \in (IF matching = {} THEN {0} ELSE matching) :
                SlotsModifyResult(id, 0, time, first).moved =>
                    /\ target > now
                    /\ \A j \in DOMAIN appts \ {id} :
                          ~(/\ appts[j].healthprof = appts[id].healthprof
                            /\ appts[j].appointment_date = target
                            /\ appts[j].state \in {"free", "booked", "confirmed"})

\* C26: /date-slot-modification gives an appointment of cancel_date only a
\* generated timestamp at which the professional has no existing
\* appointment (the appointments the request itself moves left aside).
ReassignOnlyToUnusedTimestamps ==
    \A u \in Users, request \in GenRequests :
        get_healthprof(u) # NULL =>
            LET hp        == get_healthprof(u)
                new_slots == ModificationSlots(hp, request)
                on_date   == {i \in DOMAIN appts :
                                 /\ appts[i].healthprof = hp
                                 /\ DateOf(appts[i].appointment_date) = 0}
            IN  \A id_list \in Orderings(on_date) :
                    LET n     == Min(Len(new_slots), Len(id_list))
                        moved == {id_list[m] : m \in 1..n}
                        rows  == DateSlotsModifyResult(hp, request, id_list).rows
                    IN  \A i \in moved, j \in DOMAIN appts \ moved :
                            ~(/\ rows[j].healthprof = hp
                              /\ rows[j].appointment_date = rows[i].appointment_date)

====
